---------------------------- MODULE Spec2Model ----------------------------
(***************************************************************************)
(* A model of exchangelib/util.py: the retrying request executor           *)
(* post_ratelimited with its helpers (_back_off_if_needed,                 *)
(* _may_retry_on_error, _need_new_credentials, _redirect_or_fail,          *)
(* get_redirect_url, _raise_response_errors, is_xml).                      *)
(*                                                                         *)
(* Time is counted in seconds.  Strings are modelled by their parts: a URL *)
(* by its scheme, netloc, path and query, a path and a body by a sequence  *)
(* of tokens, a header set by a function from header names to values.      *)
(***************************************************************************)
EXTENDS Integers, Sequences, FiniteSets, TLC

(***************************************************************************)
(* Bounds of the model.                                                    *)
(***************************************************************************)
\* The clock stops at Horizon, which lies beyond every max_wait of MaxWaits:
\* past it every comparison the code makes with the clock has one outcome.
Horizon == 70
\* The POST counter of a call counts 0, 1, ... MaxPosts ("MaxPosts or more").
MaxPosts == 2
\* Sessions of a call are numbered 0 (the caller's), 1, ... MaxSessions
\* ("the MaxSessions-th or a later one").
MaxSessions == 2

\* The executions of post_ratelimited that share one RetryPolicy.
Procs == {"a", "b"}
\* retry_policy.max_wait, in seconds.
MaxWaits == {15, 30, 60}
\* The time one POST takes (request sent to response or error obtained).
Durations == {10}
\* A cool-down left pending by an earlier call when the modelled calls start.
PendingBackOffs == {<<>>, <<20>>}

(***************************************************************************)
(* Program constants.                                                      *)
(***************************************************************************)
RETRY_WAIT == 10
MAX_REDIRECTS == 10

Min(a, b) == IF a < b THEN a ELSE b
Max(a, b) == IF a > b THEN a ELSE b

\* dict.get(key, default)
Get(h, k, d) == IF k \in DOMAIN h THEN h[k] ELSE d

\* str.lower() on the tokens the model uses.
Lower(s) ==
    CASE s = "HOST" -> "host"
      [] s = "EWS/GenericErrorPage.htm" -> "ews/genericerrorpage.htm"
      [] s = "aspxerrorpath=/EWS/Exchange.asmx" -> "aspxerrorpath=/ews/exchange.asmx"
      [] OTHER -> s

LowerSeq(q) == [i \in DOMAIN q |-> Lower(q[i])]

(***************************************************************************)
(* Bodies: sequences of tokens.  BOM_UTF8 and the "<?xml" prefix are       *)
(* tokens of their own, so are the marker strings the code searches for.   *)
(***************************************************************************)
BOM_UTF8 == "BOM"
XmlPrefix == "<?xml"
ServerErrorMarker == "Server Error in '/EWS' Application"
InvalidVersionMarker == "The specified server version is invalid"
InvalidSchemaMarker == "ErrorInvalidSchemaVersionForMailboxVersion"
LockedOutMarker == "The referenced account is currently locked out"

\* `marker in content`
Contains(content, marker) == \E i \in DOMAIN content : content[i] = marker

\* is_xml(text): the prefix test, after an optional byte order mark.
is_xml(text) ==
    IF Len(text) >= 1 /\ text[1] = BOM_UTF8
    THEN Len(text) >= 2 /\ text[2] = XmlPrefix
    ELSE Len(text) >= 1 /\ text[1] = XmlPrefix

Bodies500 ==
    { <<>>,
      <<XmlPrefix, "<s:Envelope>">>,
      <<BOM_UTF8, XmlPrefix, "<s:Envelope>">>,
      <<XmlPrefix, ServerErrorMarker>>,
      <<"<html>", ServerErrorMarker>>,
      <<"<html>", "Internal error">>,
      <<"<s:Envelope>", InvalidVersionMarker>>,
      <<XmlPrefix, InvalidSchemaMarker>>,
      <<"<html>", LockedOutMarker>> }

(***************************************************************************)
(* URLs.                                                                   *)
(***************************************************************************)
Url(scheme, netloc, path, query) ==
    [scheme |-> scheme, netloc |-> netloc, path |-> path, query |-> query]

EwsPath == <<"/", "ews/exchange.asmx">>
\* The URL the caller passes.
URL0 == Url("https", "host", EwsPath, "")

\* Values of the Location header.
LocOther == Url("https", "otherhost", <<"/", "x">>, "")
LocBack == Url("https", "host", EwsPath, "")
LocRel == Url("", "", <<"/", "ews/other.asmx">>, "")
LocGeneric ==
    Url("", "", <<"/", "EWS/GenericErrorPage.htm">>, "aspxerrorpath=/EWS/Exchange.asmx")

\* split_url(url): (scheme == 'https', netloc.lower(), path)
split_url(url) ==
    [has_ssl |-> url.scheme = "https", server |-> Lower(url.netloc), path |-> url.path]

\* '%s://%s%s' % ('https' if has_ssl else 'http', server, path)
FormatUrl(has_ssl, server, path) ==
    Url(IF has_ssl THEN "https" ELSE "http", server, path, "")

\* The comparison in _may_retry_on_error of the lower-cased Location string
\* with '/ews/genericerrorpage.htm?aspxerrorpath=/ews/exchange.asmx'.
IsGenericErrorPage(loc) ==
    /\ loc.scheme = ""
    /\ loc.netloc = ""
    /\ LowerSeq(loc.path) = <<"/", "ews/genericerrorpage.htm">>
    /\ Lower(loc.query) = "aspxerrorpath=/ews/exchange.asmx"

(***************************************************************************)
(* Responses.                                                              *)
(***************************************************************************)
\* history is empty on every response: the POST is sent with
\* allow_redirects=False, and a DummyResponse has history=None.
Response(status_code, url, headers, content) ==
    [status_code |-> status_code, url |-> url, headers |-> headers,
     content |-> content, history |-> <<>>]

\* Mutant of line 642: the status code of a DummyResponse is 500.
DummyResponse500(url, headers, status_code) ==
    Response(500, url, headers, <<>>)

\* DummyResponse(url, headers, request_headers, content=b'', status_code=503)
DummyResponse(url, headers, status_code) ==
    Response(status_code, url, headers, <<>>)

NoHeaders == <<>>
Close == "connection" :> "close"
KeepAlive == "connection" :> "keep-alive"
Cas == "X-CasErrorCode" :> "CAS error: denied"
Location(loc) == "location" :> loc

\* What a server may answer to a POST to `url`: [status, headers, body].
ServerAnswers ==
    {<<200, NoHeaders, <<XmlPrefix, "<s:Envelope>">>>>,
     <<200, Close, <<>>>>,
     <<301, Location(LocOther), <<>>>>,
     <<301, Location(LocRel), <<>>>>,
     <<302, NoHeaders, <<>>>>,
     <<302, Location(LocOther), <<>>>>,
     <<302, Location(LocBack), <<>>>>,
     <<302, Location(LocGeneric), <<>>>>,
     <<302, Location(LocOther) @@ Close, <<>>>>,
     <<401, NoHeaders, <<>>>>,
     <<401, Cas, <<>>>>,
     <<401, NoHeaders, <<"<html>", LockedOutMarker>>>>,
     <<404, NoHeaders, <<"<html>", "Not found">>>>,
     <<404, Cas, <<>>>>,
     <<503, NoHeaders, <<>>>>,
     <<503, KeepAlive, <<"<html>", "Service unavailable">>>>}
    \cup {<<500, h, b>> : h \in {NoHeaders, Close}, b \in Bodies500}
    \cup {<<500, Cas, <<"<html>", "Internal error">>>>}

\* What session.post can do: return a response or raise.
TransportOutcomes ==
    {[exc |-> "", answer |-> a] : a \in ServerAnswers}
    \cup {[exc |-> e, answer |-> <<>>] :
            e \in {"TLS_ERRORS", "CONNECTION_ERRORS", "TokenExpiredError",
                   "KeyError:www-authenticate", "Unhandled"}}

(***************************************************************************)
(* get_redirect_url(response, allow_relative, require_relative): the       *)
(* redirect target, or the exception raised.                               *)
(***************************************************************************)
StartsWithSlash(path) == Len(path) >= 1 /\ path[1] = "/"

\* Mutant of lines 692-694: the target is not compared with the request URL.
get_redirect_url_noloop(response, allow_relative, require_relative) ==
    IF "location" \notin DOMAIN response.headers
    THEN [exc |-> "TransportError", url |-> response.url]
    ELSE
    LET redirect == split_url(response.headers["location"])
        request_url == IF response.history # <<>> THEN response.history[1]
                       ELSE response.url
        request == split_url(request_url)
        resp == split_url(response.url)
        relative == redirect.server = ""
        redirect_server == IF relative THEN resp.server ELSE redirect.server
        redirect_has_ssl == IF relative THEN resp.has_ssl ELSE redirect.has_ssl
        redirect_path == IF StartsWithSlash(redirect.path) THEN redirect.path
                         ELSE (IF resp.path # <<>> THEN resp.path ELSE <<"/">>)
                              \o redirect.path
        redirect_url == FormatUrl(redirect_has_ssl, redirect_server, redirect_path)
    IN  IF /\ ~allow_relative
           /\ request.has_ssl = resp.has_ssl
           /\ request.server = redirect_server
        THEN [exc |-> "RelativeRedirect", url |-> redirect_url]
        ELSE IF /\ require_relative
                /\ (request.has_ssl # resp.has_ssl \/ request.server # redirect_server)
        THEN [exc |-> "RelativeRedirect", url |-> redirect_url]
        ELSE [exc |-> "", url |-> redirect_url]

get_redirect_url(response, allow_relative, require_relative) ==
    IF "location" \notin DOMAIN response.headers
    THEN [exc |-> "TransportError", url |-> response.url]
    ELSE
    LET redirect == split_url(response.headers["location"])
        request_url == IF response.history # <<>> THEN response.history[1]
                       ELSE response.url
        request == split_url(request_url)
        resp == split_url(response.url)
        relative == redirect.server = ""
        redirect_server == IF relative THEN resp.server ELSE redirect.server
        redirect_has_ssl == IF relative THEN resp.has_ssl ELSE redirect.has_ssl
        redirect_path == IF StartsWithSlash(redirect.path) THEN redirect.path
                         ELSE (IF resp.path # <<>> THEN resp.path ELSE <<"/">>)
                              \o redirect.path
        redirect_url == FormatUrl(redirect_has_ssl, redirect_server, redirect_path)
    IN  IF redirect_url = request_url
        THEN [exc |-> "TransportError", url |-> redirect_url]
        ELSE IF /\ ~allow_relative
                /\ request.has_ssl = resp.has_ssl
                /\ request.server = redirect_server
        THEN [exc |-> "RelativeRedirect", url |-> redirect_url]
        ELSE IF /\ require_relative
                /\ (request.has_ssl # resp.has_ssl \/ request.server # redirect_server)
        THEN [exc |-> "RelativeRedirect", url |-> redirect_url]
        ELSE [exc |-> "", url |-> redirect_url]

(***************************************************************************)
(* _redirect_or_fail(response, redirects, allow_redirects): the new url    *)
(* and redirect count, or the exception raised.                            *)
(***************************************************************************)
\* Mutant of lines 940-942: the redirects are counted and not capped.
redirect_or_fail_nocap(response, redirects, allow_redirects) ==
    LET g == get_redirect_url(response, FALSE, FALSE)
    IN  IF g.exc = "RelativeRedirect"
        THEN [exc |-> "RedirectError", url |-> g.url, redirects |-> redirects]
        ELSE IF g.exc # ""
        THEN [exc |-> g.exc, url |-> g.url, redirects |-> redirects]
        ELSE IF ~allow_redirects
        THEN [exc |-> "TransportError", url |-> g.url, redirects |-> redirects]
        ELSE [exc |-> "", url |-> g.url, redirects |-> redirects + 1]

redirect_or_fail(response, redirects, allow_redirects) ==
    LET g == get_redirect_url(response, FALSE, FALSE)
    IN  IF g.exc = "RelativeRedirect"
        THEN [exc |-> "RedirectError", url |-> g.url, redirects |-> redirects]
        ELSE IF g.exc # ""
        THEN [exc |-> g.exc, url |-> g.url, redirects |-> redirects]
        ELSE IF ~allow_redirects
        THEN [exc |-> "TransportError", url |-> g.url, redirects |-> redirects]
        ELSE IF redirects + 1 > MAX_REDIRECTS
        THEN [exc |-> "TransportError", url |-> g.url, redirects |-> redirects + 1]
        ELSE [exc |-> "", url |-> g.url, redirects |-> redirects + 1]

(***************************************************************************)
(* _need_new_credentials(response)                                         *)
(***************************************************************************)
\* Mutant of lines 924-926: the header is looked for under another name.
need_new_credentials_misnamed(response) ==
    /\ response.status_code = 401
    /\ "TokenExpired" \in DOMAIN response.headers

need_new_credentials(response) ==
    /\ response.status_code = 401
    /\ "TokenExpiredError" \in DOMAIN response.headers

(***************************************************************************)
(* _may_retry_on_error(response, retry_policy, wait): "True", "False", or  *)
(* "RateLimitError" when it raises.                                        *)
(***************************************************************************)
\* Mutants of the status list of line 897: 200 listed, 503 left out.
RetryStatusesWith200 == {200, 301, 302, 401, 500, 503}
RetryStatusesWithout503 == {301, 302, 401, 500}

RetryStatuses == {301, 302, 401, 500, 503}

\* Mutant of lines 913-918: any status 500 is retried, whatever its body.
RetryConditionsAny500(response) ==
    \/ response.status_code = 401
    \/ Get(response.headers, "connection", "") = "close"
    \/ /\ response.status_code = 302
       /\ "location" \in DOMAIN response.headers
       /\ IsGenericErrorPage(response.headers["location"])
    \/ response.status_code = 503
    \/ response.status_code = 500

RetryConditions(response) ==
    \/ response.status_code = 401
    \/ Get(response.headers, "connection", "") = "close"
    \/ /\ response.status_code = 302
       /\ "location" \in DOMAIN response.headers
       /\ IsGenericErrorPage(response.headers["location"])
    \/ response.status_code = 503
    \/ /\ response.status_code = 500
       /\ Contains(response.content, ServerErrorMarker)

\* Mutant of lines 901-903: fail_fast is not looked at.
may_retry_on_error_patient(response, policy, wait) ==
    IF response.status_code \notin RetryStatuses THEN "False"
    ELSE IF wait > policy.max_wait THEN "RateLimitError"
    ELSE IF RetryConditions(response) THEN "True"
    ELSE "False"

\* Mutant of line 904: `wait >= retry_policy.max_wait`.
may_retry_on_error_ge(response, policy, wait) ==
    IF response.status_code \notin RetryStatuses THEN "False"
    ELSE IF policy.fail_fast THEN "False"
    ELSE IF wait >= policy.max_wait THEN "RateLimitError"
    ELSE IF RetryConditions(response) THEN "True"
    ELSE "False"

may_retry_on_error(response, policy, wait) ==
    IF response.status_code \notin RetryStatuses THEN "False"
    ELSE IF policy.fail_fast THEN "False"
    ELSE IF wait > policy.max_wait THEN "RateLimitError"
    ELSE IF RetryConditions(response) THEN "True"
    ELSE "False"

(***************************************************************************)
(* The test after the loop (lines 872-875): the response is returned.      *)
(***************************************************************************)
\* Mutant of line 872: the body of a 500 response is not looked at.
IsUsefulResponseAny500(response) ==
    \/ response.status_code = 500
    \/ response.status_code = 200

IsUsefulResponse(response) ==
    \/ /\ response.status_code = 500
       /\ response.content # <<>>
       /\ is_xml(response.content)
    \/ response.status_code = 200

(***************************************************************************)
(* _raise_response_errors(response, protocol): the exception it raises.    *)
(***************************************************************************)
\* Mutant of lines 957-961: the login failure is tested before the lock-out.
raise_response_errors_login_first(response, policy) ==
    IF Get(response.headers, "X-CasErrorCode", "") # "" THEN "CASError"
    ELSE IF /\ response.status_code = 500
            /\ \/ Contains(response.content, InvalidVersionMarker)
               \/ Contains(response.content, InvalidSchemaMarker)
    THEN "ErrorInvalidSchemaVersionForMailboxVersion"
    ELSE IF response.status_code = 401 /\ policy.fail_fast THEN "UnauthorizedError"
    ELSE IF Contains(response.content, LockedOutMarker) THEN "TransportError"
    ELSE IF "TimeoutException" \in DOMAIN response.headers
    THEN response.headers["TimeoutException"]
    ELSE "TransportError"

raise_response_errors(response, policy) ==
    IF Get(response.headers, "X-CasErrorCode", "") # "" THEN "CASError"
    ELSE IF /\ response.status_code = 500
            /\ \/ Contains(response.content, InvalidVersionMarker)
               \/ Contains(response.content, InvalidSchemaMarker)
    THEN "ErrorInvalidSchemaVersionForMailboxVersion"
    ELSE IF Contains(response.content, LockedOutMarker) THEN "TransportError"
    ELSE IF response.status_code = 401 /\ policy.fail_fast THEN "UnauthorizedError"
    ELSE IF "TimeoutException" \in DOMAIN response.headers
    THEN response.headers["TimeoutException"]
    ELSE "TransportError"

(***************************************************************************)
(* State.                                                                  *)
(***************************************************************************)
VARIABLES
    retry_policy,     \* protocol.retry_policy: fail_fast, max_wait, back_off_until
                      \* (<<>> is None, <<t>> a time), shared by all executions
    now,              \* the clock
    allow_redirects,  \* the argument of the calls
    pc,               \* where each execution is: "idle" (not called), "top" (line
                      \* 802), "sleep" (line 891), "post" (line 812), "handle"
                      \* (line 845), "done" (returned), "raised"
    session,          \* its session: the number of sessions it was given after
                      \* the caller's (0)
    url, wait, retry, redirects, t_start, total_wait, r,  \* its locals
    sleep_until,      \* when its time.sleep(sleep_secs) ends
    exc,              \* the exception it raised, "" if none
    posts,            \* how many POSTs it has sent
    backoffs,         \* the arguments of its retry_policy.back_off calls, in order
    retired,          \* the sessions it passed to protocol.retire_session, in order
    outlasted,        \* whether some back_off call was made while a cool-down
                      \* that ends later than its own was pending
    unclosed,         \* how many of the responses session.post returned to it
                      \* have not been closed
    args,             \* the arguments of a call of one of the other functions
    result            \* what that call has returned, <<>> before it returns

vars == <<retry_policy, now, allow_redirects, pc, session, url, wait, retry,
          redirects, t_start, total_wait, r, sleep_until, exc, posts, backoffs,
          retired, outlasted, unclosed, args, result>>

\* The variables of a call of one of the other functions.
pure == <<args, result>>

locals == <<url, wait, retry, redirects, t_start, total_wait>>

\* r before line 810 has bound it, and after a `continue`: nothing reads it
\* until line 810 binds it again.
Unbound == Response(0, URL0, NoHeaders, <<>>)

\* The clock after d more seconds.
Tick(t, d) == Min(t + d, Horizon)

\* protocol.renew_session(session), protocol.refresh_credentials(session):
\* the session they return.
NewSession(s) == Min(s + 1, MaxSessions)

\* Mutant of back_off: the cool-down is overwritten, a later one is lost.
back_off_overwrite(policy, t, seconds) ==
    [policy EXCEPT !.back_off_until = <<Tick(t, seconds)>>]

\* retry_policy.back_off(seconds): the cool-down ends `seconds` from now, and
\* a cool-down that ends later stays.
back_off(policy, t, seconds) ==
    LET value == Tick(t, seconds)
    IN  [policy EXCEPT !.back_off_until =
            IF policy.back_off_until # <<>> /\ policy.back_off_until[1] > value
            THEN policy.back_off_until ELSE <<value>>]

InitCall(callers) ==
    /\ retry_policy \in [fail_fast : BOOLEAN, max_wait : MaxWaits,
                         back_off_until : PendingBackOffs]
    /\ now = 0
    /\ allow_redirects \in BOOLEAN
    /\ pc = [p \in Procs |-> IF p \in callers THEN "top" ELSE "idle"]
    /\ session = [p \in Procs |-> 0]
    /\ url = [p \in Procs |-> URL0]
    /\ wait = [p \in Procs |-> RETRY_WAIT]
    /\ retry = [p \in Procs |-> 0]
    /\ redirects = [p \in Procs |-> 0]
    /\ t_start = [p \in Procs |-> 0]
    /\ total_wait = [p \in Procs |-> 0]
    /\ r = [p \in Procs |-> Unbound]
    /\ sleep_until = [p \in Procs |-> 0]
    /\ exc = [p \in Procs |-> ""]
    /\ posts = [p \in Procs |-> 0]
    /\ backoffs = [p \in Procs |-> <<>>]
    /\ retired = [p \in Procs |-> <<>>]
    /\ outlasted = FALSE
    /\ unclosed = [p \in Procs |-> 0]

\* A DummyResponse that took the place of a response (lines 819-827).
IsDummy(response) ==
    \E k \in {"TimeoutException", "TokenExpiredError", "KeyError"} :
        k \in DOMAIN response.headers

\* r.close(): a DummyResponse has nothing to close (line 654).
CloseResponse(p) ==
    unclosed' = [unclosed EXCEPT ![p] = IF IsDummy(r[p]) THEN @ ELSE @ - 1]

\* The `except` clauses of lines 863-871: retire the session, raise again.
Raise(p, e) ==
    /\ retired' = [retired EXCEPT ![p] = Append(@, session[p])]
    /\ exc' = [exc EXCEPT ![p] = e]
    /\ pc' = [pc EXCEPT ![p] = "raised"]

(***************************************************************************)
(* Line 802 and _back_off_if_needed up to the sleep.                       *)
(***************************************************************************)
BackOffIfNeeded(p) ==
    /\ pc[p] = "top"
    /\ IF /\ retry_policy.back_off_until # <<>>
          /\ retry_policy.back_off_until[1] - now > 0
       THEN /\ sleep_until' = [sleep_until EXCEPT ![p] = retry_policy.back_off_until[1]]
            /\ pc' = [pc EXCEPT ![p] = "sleep"]
       ELSE /\ pc' = [pc EXCEPT ![p] = "post"]
            /\ UNCHANGED sleep_until
    /\ UNCHANGED <<retry_policy, now, allow_redirects, session, locals, r, exc,
                   posts, backoffs, retired>>
    /\ UNCHANGED <<outlasted, unclosed, pure>>

\* Mutant of lines 803-805: the session is not renewed after the sleep.
RenewSessionSkipped(p) ==
    /\ pc[p] = "sleep"
    /\ now' = Max(now, sleep_until[p])
    /\ pc' = [pc EXCEPT ![p] = "post"]
    /\ UNCHANGED <<session, exc, retired>>
    /\ UNCHANGED <<retry_policy, allow_redirects, locals, r, sleep_until, posts,
                   backoffs>>
    /\ UNCHANGED <<outlasted, unclosed, pure>>

(***************************************************************************)
(* The sleep ends (line 891), backed_off is True: renew_session (line 805) *)
(* returns a session or raises.                                            *)
(***************************************************************************)
RenewSession(p) ==
    /\ pc[p] = "sleep"
    /\ now' = Max(now, sleep_until[p])
    /\ \/ /\ session' = [session EXCEPT ![p] = NewSession(@)]
          /\ pc' = [pc EXCEPT ![p] = "post"]
          /\ UNCHANGED <<exc, retired>>
       \/ /\ Raise(p, "SessionError")
          /\ UNCHANGED session
    /\ UNCHANGED <<retry_policy, allow_redirects, locals, r, sleep_until, posts,
                   backoffs>>
    /\ UNCHANGED <<outlasted, unclosed, pure>>

\* Mutant of lines 814-817: a TLS error is handled as a connection error.
PostTlsAsConnectionError(p, o, d) ==
    /\ pc[p] = "post"
    /\ now' = Tick(now, d)
    /\ posts' = [posts EXCEPT ![p] = Min(@ + 1, MaxPosts)]
    /\ unclosed' = [unclosed EXCEPT ![p] = IF o.exc = "" THEN @ + 1 ELSE @]
    /\ CASE o.exc = "" ->
              /\ r' = [r EXCEPT ![p] =
                         Response(o.answer[1], url[p], o.answer[2], o.answer[3])]
              /\ pc' = [pc EXCEPT ![p] = "handle"]
              /\ UNCHANGED <<exc, retired>>
         [] o.exc \in {"TLS_ERRORS", "CONNECTION_ERRORS"} ->
              /\ r' = [r EXCEPT ![p] =
                         DummyResponse(url[p], "TimeoutException" :> "ConnectionError", 503)]
              /\ pc' = [pc EXCEPT ![p] = "handle"]
              /\ UNCHANGED <<exc, retired>>
         [] o.exc = "TokenExpiredError" ->
              /\ r' = [r EXCEPT ![p] =
                         DummyResponse(url[p], "TokenExpiredError" :> "TokenExpiredError", 401)]
              /\ pc' = [pc EXCEPT ![p] = "handle"]
              /\ UNCHANGED <<exc, retired>>
         [] o.exc = "KeyError:www-authenticate" ->
              /\ r' = [r EXCEPT ![p] =
                         DummyResponse(url[p], "KeyError" :> "www-authenticate", 503)]
              /\ pc' = [pc EXCEPT ![p] = "handle"]
              /\ UNCHANGED <<exc, retired>>
         [] OTHER ->
              /\ r' = [r EXCEPT ![p] = DummyResponse(url[p], NoHeaders, 503)]
              /\ Raise(p, "Unhandled")
    /\ UNCHANGED <<retry_policy, allow_redirects, session, locals, sleep_until,
                   backoffs>>
    /\ UNCHANGED <<outlasted, pure>>

(***************************************************************************)
(* Lines 808-842: the POST.  It returns a response, or raises: a TLS error *)
(* becomes TransportError, a connection error, an expired token and a      *)
(* missing www-authenticate header become a DummyResponse, anything else   *)
(* propagates.                                                             *)
(***************************************************************************)
Post(p, o, d) ==
    /\ pc[p] = "post"
    /\ now' = Tick(now, d)
    /\ posts' = [posts EXCEPT ![p] = Min(@ + 1, MaxPosts)]
    /\ unclosed' = [unclosed EXCEPT ![p] = IF o.exc = "" THEN @ + 1 ELSE @]
    /\ CASE o.exc = "" ->
              /\ r' = [r EXCEPT ![p] =
                         Response(o.answer[1], url[p], o.answer[2], o.answer[3])]
              /\ pc' = [pc EXCEPT ![p] = "handle"]
              /\ UNCHANGED <<exc, retired>>
         [] o.exc = "TLS_ERRORS" ->
              /\ r' = [r EXCEPT ![p] = DummyResponse(url[p], NoHeaders, 503)]
              /\ Raise(p, "TransportError")
         [] o.exc = "CONNECTION_ERRORS" ->
              /\ r' = [r EXCEPT ![p] =
                         DummyResponse(url[p], "TimeoutException" :> "ConnectionError", 503)]
              /\ pc' = [pc EXCEPT ![p] = "handle"]
              /\ UNCHANGED <<exc, retired>>
         [] o.exc = "TokenExpiredError" ->
              /\ r' = [r EXCEPT ![p] =
                         DummyResponse(url[p], "TokenExpiredError" :> "TokenExpiredError", 401)]
              /\ pc' = [pc EXCEPT ![p] = "handle"]
              /\ UNCHANGED <<exc, retired>>
         [] o.exc = "KeyError:www-authenticate" ->
              /\ r' = [r EXCEPT ![p] =
                         DummyResponse(url[p], "KeyError" :> "www-authenticate", 503)]
              /\ pc' = [pc EXCEPT ![p] = "handle"]
              /\ UNCHANGED <<exc, retired>>
         [] OTHER ->
              /\ r' = [r EXCEPT ![p] = DummyResponse(url[p], NoHeaders, 503)]
              /\ Raise(p, "Unhandled")
    /\ UNCHANGED <<retry_policy, allow_redirects, session, locals, sleep_until,
                   backoffs>>
    /\ UNCHANGED <<outlasted, pure>>

\* Mutant of line 847: the session refresh_credentials returns is dropped.
RefreshCredentialsKeepSession(p) ==
    /\ pc[p] = "handle"
    /\ need_new_credentials(r[p])
    /\ \/ /\ r' = [r EXCEPT ![p] = Unbound]
          /\ pc' = [pc EXCEPT ![p] = "top"]
          /\ UNCHANGED <<session, exc, retired>>
       \/ /\ Raise(p, "SessionError")
          /\ UNCHANGED <<session, r>>
    /\ UNCHANGED <<retry_policy, now, allow_redirects, locals, sleep_until, posts,
                   backoffs>>
    /\ CloseResponse(p)
    /\ UNCHANGED <<outlasted, pure>>

(***************************************************************************)
(* Lines 845-848: the token has expired.  refresh_credentials returns a    *)
(* session or raises.                                                      *)
(***************************************************************************)
RefreshCredentials(p) ==
    /\ pc[p] = "handle"
    /\ need_new_credentials(r[p])
    /\ \/ /\ session' = [session EXCEPT ![p] = NewSession(@)]
          /\ r' = [r EXCEPT ![p] = Unbound]
          /\ pc' = [pc EXCEPT ![p] = "top"]
          /\ UNCHANGED <<exc, retired>>
       \/ /\ Raise(p, "SessionError")
          /\ UNCHANGED <<session, r>>
    /\ UNCHANGED <<retry_policy, now, allow_redirects, locals, sleep_until, posts,
                   backoffs>>
    /\ CloseResponse(p)
    /\ UNCHANGED <<outlasted, pure>>

\* Line 849 and the call of line 850.
MayRetry(p) == may_retry_on_error(r[p], retry_policy, now - t_start[p])

(***************************************************************************)
(* Lines 850-857: a retry after a cool-down.                               *)
(***************************************************************************)
RetryOnError(p) ==
    /\ pc[p] = "handle"
    /\ ~need_new_credentials(r[p])
    /\ MayRetry(p) = "True"
    /\ total_wait' = [total_wait EXCEPT ![p] = now - t_start[p]]
    /\ retry_policy' = back_off(retry_policy, now, wait[p])
    /\ outlasted' = (\/ outlasted
                     \/ /\ retry_policy.back_off_until # <<>>
                        /\ retry_policy.back_off_until[1] > Tick(now, wait[p]))
    /\ backoffs' = [backoffs EXCEPT ![p] = Append(@, wait[p])]
    /\ retry' = [retry EXCEPT ![p] = @ + 1]
    /\ wait' = [wait EXCEPT ![p] = @ * 2]
    /\ r' = [r EXCEPT ![p] = Unbound]
    /\ pc' = [pc EXCEPT ![p] = "top"]
    /\ UNCHANGED <<now, allow_redirects, session, url, redirects, t_start,
                   sleep_until, exc, posts, retired>>
    /\ CloseResponse(p)
    /\ UNCHANGED pure

(***************************************************************************)
(* Lines 850, 904-907, 863-866: _may_retry_on_error raises RateLimitError. *)
(***************************************************************************)
RateLimited(p) ==
    /\ pc[p] = "handle"
    /\ ~need_new_credentials(r[p])
    /\ MayRetry(p) = "RateLimitError"
    /\ total_wait' = [total_wait EXCEPT ![p] = now - t_start[p]]
    /\ Raise(p, "RateLimitError")
    /\ UNCHANGED <<retry_policy, now, allow_redirects, session, url, wait, retry,
                   redirects, t_start, r, sleep_until, posts, backoffs>>
    /\ UNCHANGED <<outlasted, unclosed, pure>>

\* Mutant of lines 858-861: the redirect is counted as a retry as well.
RedirectOrFailAsRetry(p) ==
    /\ pc[p] = "handle"
    /\ ~need_new_credentials(r[p])
    /\ MayRetry(p) = "False"
    /\ r[p].status_code \in {301, 302}
    /\ total_wait' = [total_wait EXCEPT ![p] = now - t_start[p]]
    /\ LET f == redirect_or_fail(r[p], redirects[p], allow_redirects)
       IN  IF f.exc # ""
           THEN /\ Raise(p, f.exc)
                /\ UNCHANGED <<url, redirects, r>>
           ELSE /\ url' = [url EXCEPT ![p] = f.url]
                /\ redirects' = [redirects EXCEPT ![p] = f.redirects]
                /\ r' = [r EXCEPT ![p] = Unbound]
                /\ pc' = [pc EXCEPT ![p] = "top"]
                /\ UNCHANGED <<exc, retired>>
    /\ UNCHANGED <<retry_policy, now, allow_redirects, session, wait,
                   t_start, sleep_until, posts, backoffs>>
    /\ retry' = [retry EXCEPT ![p] = @ + 1]
    /\ CloseResponse(p)
    /\ UNCHANGED <<outlasted, pure>>

(***************************************************************************)
(* Lines 858-861: a redirect is followed, or _redirect_or_fail raises.     *)
(***************************************************************************)
RedirectOrFail(p) ==
    /\ pc[p] = "handle"
    /\ ~need_new_credentials(r[p])
    /\ MayRetry(p) = "False"
    /\ r[p].status_code \in {301, 302}
    /\ total_wait' = [total_wait EXCEPT ![p] = now - t_start[p]]
    /\ LET f == redirect_or_fail(r[p], redirects[p], allow_redirects)
       IN  IF f.exc # ""
           THEN /\ Raise(p, f.exc)
                /\ UNCHANGED <<url, redirects, r>>
           ELSE /\ url' = [url EXCEPT ![p] = f.url]
                /\ redirects' = [redirects EXCEPT ![p] = f.redirects]
                /\ r' = [r EXCEPT ![p] = Unbound]
                /\ pc' = [pc EXCEPT ![p] = "top"]
                /\ UNCHANGED <<exc, retired>>
    /\ UNCHANGED <<retry_policy, now, allow_redirects, session, wait, retry,
                   t_start, sleep_until, posts, backoffs>>
    /\ CloseResponse(p)
    /\ UNCHANGED <<outlasted, pure>>

\* Line 862: the loop ends.
Break(p) ==
    /\ pc[p] = "handle"
    /\ ~need_new_credentials(r[p])
    /\ MayRetry(p) = "False"
    /\ r[p].status_code \notin {301, 302}

(***************************************************************************)
(* Lines 862, 872-875, 881-882: the response is returned with the session. *)
(***************************************************************************)
Return(p) ==
    /\ Break(p)
    /\ IsUsefulResponse(r[p])
    /\ total_wait' = [total_wait EXCEPT ![p] = now - t_start[p]]
    /\ pc' = [pc EXCEPT ![p] = "done"]
    /\ UNCHANGED <<retry_policy, now, allow_redirects, session, url, wait, retry,
                   redirects, t_start, r, sleep_until, exc, posts, backoffs, retired>>
    /\ UNCHANGED <<outlasted, unclosed, pure>>

\* Mutant of lines 875-880: line 876 (retire_session) is missing.
RaiseResponseErrorsNoRetire(p) ==
    /\ Break(p)
    /\ ~IsUsefulResponse(r[p])
    /\ total_wait' = [total_wait EXCEPT ![p] = now - t_start[p]]
    /\ exc' = [exc EXCEPT ![p] = raise_response_errors(r[p], retry_policy)]
    /\ pc' = [pc EXCEPT ![p] = "raised"]
    /\ UNCHANGED <<retry_policy, now, allow_redirects, session, url, wait, retry,
                   redirects, t_start, r, sleep_until, posts, backoffs, retired>>
    /\ UNCHANGED <<outlasted, unclosed, pure>>

(***************************************************************************)
(* Lines 862, 875-880: the session is retired, _raise_response_errors      *)
(* raises.                                                                 *)
(***************************************************************************)
RaiseResponseErrors(p) ==
    /\ Break(p)
    /\ ~IsUsefulResponse(r[p])
    /\ total_wait' = [total_wait EXCEPT ![p] = now - t_start[p]]
    /\ Raise(p, raise_response_errors(r[p], retry_policy))
    /\ UNCHANGED <<retry_policy, now, allow_redirects, session, url, wait, retry,
                   redirects, t_start, r, sleep_until, posts, backoffs>>
    /\ UNCHANGED <<outlasted, unclosed, pure>>

Step(p, outcomes) ==
    \/ BackOffIfNeeded(p)
    \/ RenewSession(p)
    \/ \E o \in outcomes, d \in Durations : Post(p, o, d)
    \/ RefreshCredentials(p)
    \/ RetryOnError(p)
    \/ RateLimited(p)
    \/ RedirectOrFail(p)
    \/ Return(p)
    \/ RaiseResponseErrors(p)

(***************************************************************************)
(* One call of post_ratelimited.                                           *)
(***************************************************************************)
\* None of the other functions is called.
NoPureCall == args = <<>> /\ result = <<>>

Init == InitCall({"a"}) /\ NoPureCall

Next == \E p \in Procs : Step(p, TransportOutcomes)

Spec == Init /\ [][Next]_vars

\* The thread that runs the call keeps running.
FairSpec == Spec /\ WF_vars(Next)

(***************************************************************************)
(* Two concurrent calls that share the RetryPolicy (fail_fast false), each *)
(* with its own session.                                                   *)
(***************************************************************************)
ConcOutcomes ==
    {o \in TransportOutcomes :
        \/ o.exc = "TokenExpiredError"
        \/ /\ o.exc = ""
           /\ o.answer \in {<<200, Close, <<>>>>,
                            <<302, Location(LocOther), <<>>>>,
                            <<404, Cas, <<>>>>,
                            <<503, NoHeaders, <<>>>>}}

InitConc ==
    /\ InitCall(Procs)
    /\ NoPureCall
    /\ ~retry_policy.fail_fast
    /\ retry_policy.max_wait = 30
    /\ retry_policy.back_off_until = <<>>
    /\ ~allow_redirects

NextConc == \E p \in Procs : Step(p, ConcOutcomes)

SpecConc == InitConc /\ [][NextConc]_vars

(***************************************************************************)
(* Calls of the other functions of the module, one call per behaviour: the *)
(* arguments are drawn at the start, the step is the call.  No execution   *)
(* of post_ratelimited runs meanwhile.                                     *)
(***************************************************************************)
executor == <<retry_policy, now, allow_redirects, pc, session, url, wait, retry,
              redirects, t_start, total_wait, r, sleep_until, exc, posts,
              backoffs, retired, outlasted, unclosed>>

NoExecution ==
    /\ InitCall({})
    /\ retry_policy = [fail_fast |-> TRUE, max_wait |-> 15, back_off_until |-> <<>>]
    /\ ~allow_redirects

(***************************************************************************)
(* get_redirect_url(response, allow_relative, require_relative) called on  *)
(* a redirect response.                                                    *)
(***************************************************************************)
\* URLs of the request the response answers.
RequestUrls ==
    {URL0,
     Url("http", "host", EwsPath, ""),
     Url("https", "HOST", EwsPath, ""),
     Url("https", "host", <<>>, ""),
     Url("https", "otherhost", <<"/", "x">>, "")}

\* More values of the Location header: an absolute URL with a query, one
\* with an upper-case host, one with scheme http, and a path that is not
\* top-level.
LocQuery == Url("https", "otherhost", <<"/", "x">>, "a=1")
LocUpper == Url("https", "HOST", <<"/", "x">>, "")
LocHttp == Url("http", "host", EwsPath, "")
LocNoSlash == Url("", "", <<"other.asmx">>, "")

Locations ==
    {LocOther, LocBack, LocRel, LocGeneric, LocQuery, LocUpper, LocHttp, LocNoSlash}

RedirectResponses ==
    {Response(302, u, Location(l), <<>>) : u \in RequestUrls, l \in Locations}
    \cup {Response(301, u, NoHeaders, <<>>) : u \in RequestUrls}

InitRedirect ==
    /\ NoExecution
    /\ args \in [fn : {"get_redirect_url"}, response : RedirectResponses,
                 allow_relative : BOOLEAN, require_relative : BOOLEAN]
    /\ result = <<>>

CallGetRedirectUrl ==
    /\ args.fn = "get_redirect_url"
    /\ result = <<>>
    /\ result' = get_redirect_url(args.response, args.allow_relative,
                                  args.require_relative)
    /\ UNCHANGED <<args, executor>>

NextRedirect == CallGetRedirectUrl

SpecRedirect == InitRedirect /\ [][NextRedirect]_vars

(***************************************************************************)
(* DocumentYielder(content_iterator, document_tag).  A byte string is a    *)
(* sequence of one-character strings; the iterator is modelled by the      *)
(* bytes it delivers and the index of the next one.                        *)
(***************************************************************************)
\* MaxParts bounds the number of documents and other pieces of a stream.
MaxParts == 2

DocumentTag == <<"T">>
\* Lines 460-461: b'<%s' % tag and b'/%s>' % tag.
StartToken == <<"<">> \o DocumentTag
EndToken == <<"/">> \o DocumentTag \o <<">">>
\* The declaration line of line 495, one token.
XmlDeclaration == <<"<?xml version='1.0' encoding='utf-8'?>\n">>

\* bytes.startswith, bytes.endswith
StartsWith(b, token) == Len(b) >= Len(token) /\ SubSeq(b, 1, Len(token)) = token
EndsWith(b, token) ==
    Len(b) >= Len(token) /\ SubSeq(b, Len(b) - Len(token) + 1, Len(b)) = token

\* get_tag(stop_byte), reading from index i on: the tag and the index of
\* the next byte to read.
RECURSIVE get_tag(_, _, _, _)
get_tag(stream, i, stop_byte, tag_buffer) ==
    IF i > Len(stream) THEN [tag |-> tag_buffer, next |-> i]
    ELSE IF stream[i] = stop_byte
    THEN [tag |-> Append(tag_buffer, stream[i]), next |-> i + 1]
    ELSE get_tag(stream, i + 1, stop_byte, Append(tag_buffer, stream[i]))

\* Mutant of __iter__: line 497 is missing, the buffer is not reset after a
\* document is yielded.
RECURSIVE IterateNoReset(_, _, _, _, _)
IterateNoReset(stream, i, doc_started, buffer, items) ==
    IF i > Len(stream) THEN [items |-> items, exc |-> ""]
    ELSE IF ~doc_started /\ stream[i] = "<"
    THEN LET t == get_tag(stream, i + 1, " ", <<"<">>)
         IN  IF StartsWith(t.tag, StartToken)
             THEN IterateNoReset(stream, t.next, TRUE, buffer \o t.tag, items)
             ELSE IterateNoReset(stream, t.next, FALSE, buffer, items)
    ELSE IF doc_started /\ stream[i] = "<"
    THEN LET t == get_tag(stream, i + 1, ">", <<"<">>)
         IN  IF EndsWith(t.tag, EndToken)
             THEN IterateNoReset(stream, t.next, FALSE, buffer \o t.tag,
                                 Append(items, XmlDeclaration \o buffer \o t.tag))
             ELSE IterateNoReset(stream, t.next, TRUE, buffer \o t.tag, items)
    ELSE IF doc_started
    THEN IterateNoReset(stream, i + 1, TRUE, Append(buffer, stream[i]), items)
    ELSE IterateNoReset(stream, i + 1, FALSE, buffer, items)

\* Mutant of __iter__: when the iterator is exhausted, what the buffer holds
\* of an open document is yielded.
RECURSIVE IterateFlush(_, _, _, _, _)
IterateFlush(stream, i, doc_started, buffer, items) ==
    IF i > Len(stream)
    THEN [items |-> IF doc_started THEN Append(items, XmlDeclaration \o buffer)
                    ELSE items,
          exc |-> ""]
    ELSE IF ~doc_started /\ stream[i] = "<"
    THEN LET t == get_tag(stream, i + 1, " ", <<"<">>)
         IN  IF StartsWith(t.tag, StartToken)
             THEN IterateFlush(stream, t.next, TRUE, buffer \o t.tag, items)
             ELSE IterateFlush(stream, t.next, FALSE, buffer, items)
    ELSE IF doc_started /\ stream[i] = "<"
    THEN LET t == get_tag(stream, i + 1, ">", <<"<">>)
         IN  IF EndsWith(t.tag, EndToken)
             THEN IterateFlush(stream, t.next, FALSE, <<>>,
                               Append(items, XmlDeclaration \o buffer \o t.tag))
             ELSE IterateFlush(stream, t.next, TRUE, buffer \o t.tag, items)
    ELSE IF doc_started
    THEN IterateFlush(stream, i + 1, TRUE, Append(buffer, stream[i]), items)
    ELSE IterateFlush(stream, i + 1, FALSE, buffer, items)

\* __iter__ from the byte at index i on, with its locals doc_started and
\* buffer (joined) and the documents yielded so far.  It ends when next()
\* raises StopIteration (lines 500-501), also after get_tag has met the end
\* of the stream.
RECURSIVE Iterate(_, _, _, _, _)
Iterate(stream, i, doc_started, buffer, items) ==
    IF i > Len(stream) THEN [items |-> items, exc |-> ""]
    ELSE IF ~doc_started /\ stream[i] = "<"
    THEN LET t == get_tag(stream, i + 1, " ", <<"<">>)
         IN  IF StartsWith(t.tag, StartToken)
             THEN Iterate(stream, t.next, TRUE, buffer \o t.tag, items)
             ELSE Iterate(stream, t.next, FALSE, buffer, items)
    ELSE IF doc_started /\ stream[i] = "<"
    THEN LET t == get_tag(stream, i + 1, ">", <<"<">>)
         IN  IF EndsWith(t.tag, EndToken)
             THEN Iterate(stream, t.next, FALSE, <<>>,
                          Append(items, XmlDeclaration \o buffer \o t.tag))
             ELSE Iterate(stream, t.next, TRUE, buffer \o t.tag, items)
    ELSE IF doc_started
    THEN Iterate(stream, i + 1, TRUE, Append(buffer, stream[i]), items)
    ELSE Iterate(stream, i + 1, FALSE, buffer, items)

\* list(DocumentYielder(iter(stream), document_tag))
DocumentYielder(stream) == Iterate(stream, 1, FALSE, <<>>, <<>>)

\* The streams: documents with attributes in the root tag, documents whose
\* root tag is closed at once, and what may stand before and between them.
EndTag == <<"<">> \o EndToken
AttrStartTags ==
    {StartToken \o <<" ", "a", ">">>, StartToken \o <<" ", "a", " ", "b", ">">>}
PlainStartTag == StartToken \o <<">">>
DocBodies ==
    {<<>>,
     <<"x">>,
     <<"x", " ", "y">>,
     <<"x", ">", "/">>,
     <<"<", "b", ">", "x", "<", "/", "b", ">">>,
     <<"<", "b", " ", "a", "/", ">">>}
AttrDocs == {t \o b \o EndTag : t \in AttrStartTags, b \in DocBodies}
PlainDocs == {PlainStartTag \o b \o EndTag : b \in {<<"x">>, <<"x", " ", "y">>}}
Docs == AttrDocs \cup PlainDocs
Fillers ==
    {<<"x">>, <<" ">>, <<"\n">>, <<"<", "b", ">">>,
     <<"<", "?", "x", " ", "v", "?", ">">>}

PartSeqs == UNION {[1..n -> Docs \cup Fillers] : n \in 0..MaxParts}

RECURSIVE Flatten(_)
Flatten(parts) ==
    IF parts = <<>> THEN <<>> ELSE Head(parts) \o Flatten(Tail(parts))

\* The bytes the iterator delivers before it is exhausted.
Delivered(a) == SubSeq(Flatten(a.parts), 1, a.cut)

InitDocs ==
    /\ NoExecution
    /\ \E ps \in PartSeqs : \E c \in 0..Len(Flatten(ps)) :
         args = [fn |-> "DocumentYielder", parts |-> ps, cut |-> c]
    /\ result = <<>>

CallDocumentYielder ==
    /\ args.fn = "DocumentYielder"
    /\ result = <<>>
    /\ result' = DocumentYielder(Delivered(args))
    /\ UNCHANGED <<args, executor>>

NextDocs == CallDocumentYielder

SpecDocs == InitDocs /\ [][NextDocs]_vars

(***************************************************************************)
(* StreamingBase64Parser.parse(r) with its StreamingContentHandler.  The   *)
(* stream is a sequence of read chunks; a chunk is the sequence of the     *)
(* pieces the tokenizer reports while it is fed: a start tag, an end tag,  *)
(* a fragment of character data, or a declaration, which it reports to no *)
(* method of the handler.  Base64 text is a sequence of the values 0..63   *)
(* of its characters, with PAD for '='; decoded bytes are numbers.         *)
(***************************************************************************)
\* MaxFragments bounds the fragments the tokenizer splits the character
\* data of the target element into, MaxChunks the read chunks of a stream.
MaxFragments == 3
MaxChunks == 3

PAD == 64

\* The bytes of one group of four characters.
DecodeGroup(g) ==
    LET b1 == g[1] * 4 + g[2] \div 16
        b2 == (g[2] % 16) * 16 + g[3] \div 4
        b3 == (g[3] % 4) * 64 + g[4]
    IN  IF g[3] = PAD /\ g[4] = PAD THEN <<b1>>
        ELSE IF g[4] = PAD THEN <<b1, b2>>
        ELSE <<b1, b2, b3>>

\* base64.b64decode(data), for data made of whole groups; a group that is
\* cut short, or has fewer than two characters before its padding, raises
\* binascii.Error.
RECURSIVE b64decode(_)
b64decode(data) ==
    IF data = <<>> THEN <<>>
    ELSE IF Len(data) < 4 THEN <<"binascii.Error">>
    ELSE IF data[1] = PAD \/ data[2] = PAD THEN <<"binascii.Error">>
    ELSE DecodeGroup(SubSeq(data, 1, 4)) \o b64decode(SubSeq(data, 5, Len(data)))

\* The pieces of a stream.
StartEl(name) == [kind |-> "start", name |-> name, text |-> <<>>]
EndEl(name) == [kind |-> "end", name |-> name, text |-> <<>>]
Chars(text) == [kind |-> "chars", name |-> <<>>, text |-> text]
Decl == [kind |-> "decl", name |-> <<>>, text |-> <<>>]

\* (self._ns, self._element_name) of the handler, and other element names.
TargetName == <<"ns", "Content">>
RootName == <<"ns", "Envelope">>
OtherName == <<"other", "Content">>

\* The handler and the parser's fields it writes, after __init__ and
\* lines 361-362.
NewHandler == [parsing |-> FALSE, element_found |-> FALSE, buffer |-> <<>>]

\* Mutant of line 309: the element name is compared without its namespace.
startElementNS_anyns(h, name) ==
    IF name[2] = TargetName[2]
    THEN [h EXCEPT !.parsing = TRUE, !.element_found = TRUE]
    ELSE h

startElementNS(h, name) ==
    IF name = TargetName
    THEN [h EXCEPT !.parsing = TRUE, !.element_found = TRUE]
    ELSE h

endElementNS(h, name) ==
    IF name = TargetName THEN [h EXCEPT !.parsing = FALSE] ELSE h

characters(h, content) ==
    IF ~h.parsing THEN h ELSE [h EXCEPT !.buffer = Append(@, content)]

\* DefusedExpatParser.feed(data): the handler is called for the pieces of
\* the chunk from index i on.
RECURSIVE Feed(_, _, _)
Feed(h, chunk, i) ==
    IF i > Len(chunk) THEN h
    ELSE LET piece == chunk[i]
             h1 == CASE piece.kind = "start" -> startElementNS(h, piece.name)
                     [] piece.kind = "end" -> endElementNS(h, piece.name)
                     [] piece.kind = "chars" -> characters(h, piece.text)
                     [] OTHER -> h
         IN  Feed(h1, chunk, i + 1)

\* Mutant of line 395: the remainder is not kept for the next flush.
RECURSIVE decode_buffer_forgetful(_, _, _, _)
decode_buffer_forgetful(buffer, i, remainder, items) ==
    IF i > Len(buffer)
    THEN [items |-> items, buffer |-> <<>>]
    ELSE LET available == Len(remainder) + Len(buffer[i])
             overflow == available % 4
             joined == IF remainder # <<>> THEN remainder \o buffer[i] ELSE buffer[i]
             data == IF overflow # 0 THEN SubSeq(joined, 1, Len(joined) - overflow)
                     ELSE joined
             rest == IF overflow # 0
                     THEN SubSeq(joined, Len(joined) - overflow + 1, Len(joined))
                     ELSE <<>>
         IN  decode_buffer_forgetful(buffer, i + 1, rest,
                                     IF data # <<>> THEN Append(items, b64decode(data))
                                     ELSE items)

\* _decode_buffer() from the i-th fragment of self.buffer on: the chunks it
\* yields and the buffer it leaves.
RECURSIVE decode_buffer(_, _, _, _)
decode_buffer(buffer, i, remainder, items) ==
    IF i > Len(buffer)
    THEN [items |-> items,
          buffer |-> IF remainder # <<>> THEN <<remainder>> ELSE <<>>]
    ELSE LET available == Len(remainder) + Len(buffer[i])
             overflow == available % 4
             joined == IF remainder # <<>> THEN remainder \o buffer[i] ELSE buffer[i]
             data == IF overflow # 0 THEN SubSeq(joined, 1, Len(joined) - overflow)
                     ELSE joined
             rest == IF overflow # 0
                     THEN SubSeq(joined, Len(joined) - overflow + 1, Len(joined))
                     ELSE <<>>
         IN  decode_buffer(buffer, i + 1, rest,
                           IF data # <<>> THEN Append(items, b64decode(data))
                           ELSE items)

\* The loop of parse from the k-th read on, and what follows it: the chunks
\* yielded, the exception raised ("" if none) and its data.
RECURSIVE ParseLoop(_, _, _, _, _)
ParseLoop(chunks, k, h, collected_data, items) ==
    IF k > Len(chunks)
    THEN IF ~h.element_found
         THEN [items |-> items, exc |-> "ElementNotFound", data |-> collected_data]
         ELSE [items |-> items, exc |-> "", data |-> <<>>]
    ELSE LET collected == IF ~h.element_found THEN collected_data \o chunks[k]
                          ELSE collected_data
             fed == Feed(h, chunks[k], 1)
             d == decode_buffer(fed.buffer, 1, <<>>, <<>>)
         IN  ParseLoop(chunks, k + 1, [fed EXCEPT !.buffer = d.buffer],
                       collected, items \o d.items)

\* list(parser.parse(r)), where r.raw delivers `chunks`.
parse(chunks) == ParseLoop(chunks, 1, NewHandler, <<>>, <<>>)

\* Base64 texts whose length is a multiple of 4, padded at the end if at
\* all: of b'', b'hel', b'hi', b'h', b'hello', b'helloo'.
Contents ==
    {<<>>,
     <<26, 6, 21, 44>>,
     <<26, 6, 36, PAD>>,
     <<26, 0, PAD, PAD>>,
     <<26, 6, 21, 44, 27, 6, 60, PAD>>,
     <<26, 6, 21, 44, 27, 6, 61, 47>>}

\* Base64 texts that lack their trailing padding: 'aGVsbG8' of b'hello',
\* 'aGk' of b'hi', 'aA' of b'h'.
UnpaddedContents ==
    {<<26, 6, 21, 44, 27, 6, 60>>,
     <<26, 6, 36>>,
     <<26, 0>>}

\* Character data outside the target element.
OutsideText == <<26, 6, 21, 44>>

\* The sets of at most k places where a sequence of length n is cut.
CutSets(n, k) == {c \in SUBSET (1..(n - 1)) : Cardinality(c) <= k}

\* The parts a sequence is cut into.
RECURSIVE Split(_, _)
Split(q, cuts) ==
    IF cuts = {} THEN <<q>>
    ELSE LET c == CHOOSE x \in cuts : \A y \in cuts : x <= y
         IN  <<SubSeq(q, 1, c)>> \o Split(SubSeq(q, c + 1, Len(q)), {y - c : y \in cuts \ {c}})

\* The fragments the tokenizer reports for `content`.
Fragments(content, cuts) ==
    IF content = <<>> THEN <<>>
    ELSE LET parts == Split(content, cuts)
         IN  [i \in DOMAIN parts |-> Chars(parts[i])]

\* A document with the target element, and one without it that has an
\* element of the same local name in another namespace.
DocumentWith(fragments) ==
    <<Decl, StartEl(RootName), Chars(OutsideText), StartEl(TargetName)>>
    \o fragments
    \o <<EndEl(TargetName), Chars(OutsideText), EndEl(RootName)>>

DocumentWithout ==
    <<Decl, StartEl(RootName), Chars(OutsideText), StartEl(OtherName),
      Chars(OutsideText), EndEl(OtherName), EndEl(RootName)>>

\* The ways of reading a document in at most MaxChunks chunks.
Readings(document) ==
    {Split(document, c) : c \in CutSets(Len(document), MaxChunks - 1)}

InitParse ==
    /\ NoExecution
    /\ \/ \E content \in Contents \cup UnpaddedContents :
            \E fc \in CutSets(Len(content), MaxFragments - 1) :
               \E chunks \in Readings(DocumentWith(Fragments(content, fc))) :
                  args = [fn |-> "parse", chunks |-> chunks, content |-> content]
       \/ \E chunks \in Readings(DocumentWithout) \cup {<<>>} :
            args = [fn |-> "parse", chunks |-> chunks, content |-> <<>>]
    /\ result = <<>>

CallParse ==
    /\ args.fn = "parse"
    /\ result = <<>>
    /\ result' = parse(args.chunks)
    /\ UNCHANGED <<args, executor>>

NextParse == CallParse

SpecParse == InitParse /\ [][NextParse]_vars

(***************************************************************************)
(* parse(r) as the generator it is, with its consumer.  `result` holds the *)
(* generator: where it stands (status "created" before the first next(),   *)
(* "suspended" at a yield, "finished" after it returned, "raised" after it *)
(* raised, "closed" after the consumer closed or dropped it), the index k  *)
(* of the next read, the handler, collected_data, the chunks of the        *)
(* current feed not yet yielded, the chunks yielded, whether r.close() was  *)
(* called, and the exception raised with its data.                         *)
(***************************************************************************)
NewGenerator ==
    [status |-> "created", k |-> 1, h |-> NewHandler, collected_data |-> <<>>,
     pending |-> <<>>, yielded |-> <<>>, r_closed |-> FALSE, exc |-> "",
     data |-> <<>>]

\* The generator runs from the k-th read on (lines 363-369), up to the next
\* yield or, when the stream has ended, through lines 371-376.
RECURSIVE RunToYield(_, _)
RunToYield(chunks, g) ==
    IF g.k > Len(chunks)
    THEN IF ~g.h.element_found
         THEN [g EXCEPT !.r_closed = TRUE, !.status = "raised",
                        !.exc = "ElementNotFound", !.data = g.collected_data]
         ELSE [g EXCEPT !.r_closed = TRUE, !.status = "finished"]
    ELSE LET collected == IF ~g.h.element_found
                          THEN g.collected_data \o chunks[g.k]
                          ELSE g.collected_data
             fed == Feed(g.h, chunks[g.k], 1)
             d == decode_buffer(fed.buffer, 1, <<>>, <<>>)
             g1 == [g EXCEPT !.k = @ + 1, !.h = [fed EXCEPT !.buffer = d.buffer],
                             !.collected_data = collected]
         IN  IF d.items = <<>> THEN RunToYield(chunks, g1)
             ELSE [g1 EXCEPT !.status = "suspended",
                             !.yielded = Append(@, Head(d.items)),
                             !.pending = Tail(d.items)]

\* next(generator)
GeneratorNext(chunks, g) ==
    IF g.pending # <<>>
    THEN [g EXCEPT !.yielded = Append(@, Head(g.pending)), !.pending = Tail(@)]
    ELSE RunToYield(chunks, g)

\* generator.close(), also when the generator is dropped: GeneratorExit is
\* raised at the yield where it stands, which no try statement of parse
\* encloses, so nothing more of parse runs.
GeneratorClose(g) == [g EXCEPT !.status = "closed", !.pending = <<>>]

InitStream ==
    /\ NoExecution
    /\ \/ \E content \in Contents \cup UnpaddedContents :
            \E fc \in CutSets(Len(content), MaxFragments - 1) :
               \E chunks \in Readings(DocumentWith(Fragments(content, fc))) :
                  args = [fn |-> "iter(parse)", chunks |-> chunks, content |-> content]
       \/ \E chunks \in Readings(DocumentWithout) \cup {<<>>} :
            args = [fn |-> "iter(parse)", chunks |-> chunks, content |-> <<>>]
    /\ result = NewGenerator

\* The consumer asks for the next chunk.
ConsumerNext ==
    /\ args.fn = "iter(parse)"
    /\ result.status \in {"created", "suspended"}
    /\ result' = GeneratorNext(args.chunks, result)
    /\ UNCHANGED <<args, executor>>

\* The consumer stops iterating.
ConsumerStops ==
    /\ args.fn = "iter(parse)"
    /\ result.status \in {"created", "suspended"}
    /\ result' = GeneratorClose(result)
    /\ UNCHANGED <<args, executor>>

NextStream == ConsumerNext \/ ConsumerStops

SpecStream == InitStream /\ [][NextStream]_vars

(***************************************************************************)
(* _decode_buffer() as the generator it is: one call of feed's return      *)
(* value, consumed by the `yield from` of line 368.  `args.buffer` is      *)
(* self.buffer when the generator starts: the remainder the previous call  *)
(* left (if any) followed by the fragments the tokenizer reported during   *)
(* this feed.  `result` holds the generator: the index i of the fragment   *)
(* the loop of line 385 takes next, the local `remainder`, the text `data` *)
(* passed to b64decode at the yield where it stands, the chunks yielded    *)
(* and self.buffer.                                                        *)
(***************************************************************************)
\* Mutant of line 387: `overflow = available % 8`.
decode_buffer_body_mod8(remainder, data) ==
    LET available == Len(remainder) + Len(data)
        overflow == available % 8
        joined == IF remainder # <<>> THEN remainder \o data ELSE data
    IN  IF overflow # 0
        THEN [remainder |-> SubSeq(joined, Len(joined) - overflow + 1, Len(joined)),
              data |-> SubSeq(joined, 1, Len(joined) - overflow)]
        ELSE [remainder |-> <<>>, data |-> joined]

\* Lines 386-392: one pass of the loop body up to the test of line 393; the
\* values of `remainder` and `data` it leaves.
decode_buffer_body(remainder, data) ==
    LET available == Len(remainder) + Len(data)
        overflow == available % 4
        joined == IF remainder # <<>> THEN remainder \o data ELSE data
    IN  IF overflow # 0
        THEN [remainder |-> SubSeq(joined, Len(joined) - overflow + 1, Len(joined)),
              data |-> SubSeq(joined, 1, Len(joined) - overflow)]
        ELSE [remainder |-> <<>>, data |-> joined]

\* The generator runs from the i-th fragment on, up to the yield of line
\* 394 or, when the loop has ended, through line 395.
RECURSIVE DecodeToYield(_)
DecodeToYield(g) ==
    IF g.i > Len(g.buffer)
    THEN [g EXCEPT !.status = "finished", !.data = <<>>,
                   !.buffer = IF g.remainder # <<>> THEN <<g.remainder>> ELSE <<>>]
    ELSE LET b == decode_buffer_body(g.remainder, g.buffer[g.i])
             g1 == [g EXCEPT !.i = @ + 1, !.remainder = b.remainder, !.data = b.data]
         IN  IF b.data = <<>> THEN DecodeToYield(g1)
             ELSE [g1 EXCEPT !.status = "suspended",
                             !.yielded = Append(@, b64decode(b.data))]

\* self.buffer when _decode_buffer starts is empty, or a base64 text or its
\* beginning cut into at most MaxFragments fragments.
InitDecode ==
    /\ NoExecution
    /\ \E content \in Contents \cup UnpaddedContents :
       \E n \in 0..Len(content) :
       \E fc \in CutSets(n, MaxFragments - 1) :
       \E buffer \in {IF n = 0 THEN <<>> ELSE Split(SubSeq(content, 1, n), fc)} :
          /\ args = [fn |-> "_decode_buffer", buffer |-> buffer]
          /\ result = [status |-> "created", i |-> 1, remainder |-> <<>>,
                       data |-> <<>>, yielded |-> <<>>, buffer |-> buffer]

\* next(generator): parse takes the next decoded chunk, or finds that
\* there is none left.
DecoderNext ==
    /\ args.fn = "_decode_buffer"
    /\ result.status \in {"created", "suspended"}
    /\ result' = DecodeToYield(result)
    /\ UNCHANGED <<args, executor>>

SpecDecode == InitDecode /\ [][DecoderNext]_vars

(***************************************************************************)
(* _raise_response_errors(response, protocol) called on a response that    *)
(* ended the loop and is not returned.                                     *)
(***************************************************************************)
\* The responses: four statuses; no header, the CAS header with a value and
\* with none, the header of the placeholder for a connection error; bodies
\* with none, one or two of the markers.
ErrorResponses ==
    {Response(s, URL0, h, b) :
        s \in {401, 404, 500, 503},
        h \in {NoHeaders, Cas, "X-CasErrorCode" :> "",
               "TimeoutException" :> "ConnectionError",
               Cas @@ "TimeoutException" :> "ConnectionError"},
        b \in {<<>>,
               <<"<html>", "Internal error">>,
               <<"<html>", LockedOutMarker>>,
               <<"<html>", InvalidVersionMarker>>,
               <<"<s:Envelope>", InvalidSchemaMarker>>,
               <<"<html>", InvalidVersionMarker, LockedOutMarker>>}}

InitErrors ==
    /\ NoExecution
    /\ args \in [fn : {"_raise_response_errors"}, response : ErrorResponses,
                 fail_fast : BOOLEAN]
    /\ result = <<>>

CallRaiseResponseErrors ==
    /\ args.fn = "_raise_response_errors"
    /\ result = <<>>
    /\ result' = [exc |-> raise_response_errors(
                             args.response,
                             [retry_policy EXCEPT !.fail_fast = args.fail_fast])]
    /\ UNCHANGED <<args, executor>>

SpecErrors == InitErrors /\ [][CallRaiseResponseErrors]_vars

(***************************************************************************)
(* BytesGeneratorIO: read(size), tell() and close() on a stream built on   *)
(* a generator of byte chunks.  `args.chunks` are the chunks the generator *)
(* delivers.  `result` holds the object: _next (a sequence of bytes, or    *)
(* None), _tell, the index k of the chunk the generator delivers next and  *)
(* closed; and, about the calls made so far, their number, the bytes they  *)
(* returned in order, the size and the value of the last read, whether a   *)
(* read of a size other than 0 has returned b'', and the exception raised  *)
(* by the last call.                                                       *)
(***************************************************************************)
\* MaxReads bounds the number of read calls of one behaviour.
MaxReads == 3

None == <<>>

\* The `size` arguments: None and some integers.
Sizes == {None, <<-1>>, <<0>>, <<1>>, <<2>>, <<5>>}

\* __init__ (lines 412-416)
NewBytesGeneratorIO ==
    [next |-> <<<<>>>>, tell |-> 0, k |-> 1, closed |-> FALSE,
     reads |-> 0, returned |-> <<>>, last_size |-> None, last |-> <<>>,
     got_empty |-> FALSE, exc |-> ""]

\* The loop of lines 436-441 from chunk k on: res, the next index and
\* whether StopIteration ended it.
RECURSIVE ReadLoop(_, _, _, _)
ReadLoop(chunks, res, k, size) ==
    IF size < 0 \/ Len(res) < size
    THEN IF k > Len(chunks)
         THEN [res |-> res, k |-> k, stopped |-> TRUE]
         ELSE ReadLoop(chunks, res \o chunks[k], k + 1, size)
    ELSE [res |-> res, k |-> k, stopped |-> FALSE]

\* read(size): the object afterwards, the exception raised ("" if none) and
\* the bytes returned.  _next is None, or <<b>> for the bytearray b; `res`
\* is the same bytearray as _next until line 444 or 445 rebinds one of them.
read(io, chunks, size_arg) ==
    IF io.closed THEN [io |-> io, exc |-> "ValueError", value |-> <<>>]
    ELSE IF io.next = None THEN [io |-> io, exc |-> "", value |-> <<>>]
    ELSE
    LET size == IF size_arg = None THEN -1 ELSE size_arg[1]
        l == ReadLoop(chunks, io.next[1], io.k, size)
        cut == size > 0 /\ ~l.stopped
        next == IF l.stopped THEN None
                ELSE IF cut THEN <<SubSeq(l.res, size + 1, Len(l.res))>>
                ELSE <<l.res>>
        res == IF cut THEN SubSeq(l.res, 1, Min(size, Len(l.res))) ELSE l.res
    IN  [io |-> [io EXCEPT !.next = next, !.k = l.k, !.tell = @ + Len(res)],
         exc |-> "", value |-> res]

InitRead ==
    /\ NoExecution
    \* What the generator delivers: four bytes in one to three chunks, also
    \* with an empty chunk between, or nothing.
    /\ \E chunks \in {Split(<<"a", "b", "c", "d">>, c) : c \in CutSets(4, 2)}
                     \cup {<<>>, <<<<"a", "b">>, <<>>, <<"c", "d">>>>} :
          args = [fn |-> "BytesGeneratorIO", chunks |-> chunks]
    /\ result = NewBytesGeneratorIO

CallRead(size) ==
    /\ args.fn = "BytesGeneratorIO"
    /\ result.reads < MaxReads
    /\ LET c == read(result, args.chunks, size)
       IN  result' = [c.io EXCEPT
                         !.reads = @ + 1,
                         !.exc = c.exc,
                         !.returned = IF c.exc = "" THEN @ \o c.value ELSE @,
                         !.last_size = size,
                         !.last = c.value,
                         !.got_empty = @ \/ (c.exc = "" /\ c.value = <<>> /\ size # <<0>>)]
    /\ UNCHANGED <<args, executor>>

\* close() (lines 449-452)
CallClose ==
    /\ args.fn = "BytesGeneratorIO"
    /\ ~result.closed
    /\ result' = [result EXCEPT !.closed = TRUE, !.exc = ""]
    /\ UNCHANGED <<args, executor>>

NextRead == (\E size \in Sizes : CallRead(size)) \/ CallClose

SpecRead == InitRead /\ [][NextRead]_vars

(***************************************************************************)
(* list(chunkify(iterable, chunksize)).  The iterable is a record of its   *)
(* type and the elements it delivers, in iteration order.                  *)
(***************************************************************************)
\* MaxItems bounds the number of elements, MaxChunkSize the chunk size.
MaxItems == 6
MaxChunkSize == 4

\* The types with __getitem__.
Indexable == {"list", "tuple", "QuerySet"}

\* range(i, len(iterable), chunksize) and the slices of line 118.
RECURSIVE Slices(_, _, _)
Slices(items, i, chunksize) ==
    IF i >= Len(items) THEN <<>>
    ELSE <<SubSeq(items, i + 1, Min(i + chunksize, Len(items)))>>
         \o Slices(items, i + chunksize, chunksize)

\* Mutant of lines 128-129: the chunk left after the loop is not yielded.
RECURSIVE AccumulateDropLast(_, _, _, _, _)
AccumulateDropLast(items, j, chunk, chunksize, out) ==
    IF j > Len(items) THEN out
    ELSE LET c == Append(chunk, items[j])
         IN  IF Len(c) = chunksize
             THEN AccumulateDropLast(items, j + 1, <<>>, chunksize, Append(out, c))
             ELSE AccumulateDropLast(items, j + 1, c, chunksize, out)

\* Lines 121-129 from the j-th element on: `chunk` is the list being
\* filled, `out` the chunks yielded so far.
RECURSIVE Accumulate(_, _, _, _, _)
Accumulate(items, j, chunk, chunksize, out) ==
    IF j > Len(items)
    THEN IF chunk # <<>> THEN Append(out, chunk) ELSE out
    ELSE LET c == Append(chunk, items[j])
         IN  IF Len(c) = chunksize
             THEN Accumulate(items, j + 1, <<>>, chunksize, Append(out, c))
             ELSE Accumulate(items, j + 1, c, chunksize, out)

chunkify(iterable, chunksize) ==
    IF iterable.type \in Indexable /\ iterable.type # "QuerySet"
    THEN Slices(iterable.items, 0, chunksize)
    ELSE Accumulate(iterable.items, 1, <<>>, chunksize, <<>>)

InitChunkify ==
    /\ NoExecution
    /\ \E t \in Indexable \cup {"generator", "set", "map"}, n \in 0..MaxItems,
          chunksize \in 1..MaxChunkSize :
          args = [fn |-> "chunkify",
                  iterable |-> [type |-> t, items |-> [i \in 1..n |-> i]],
                  chunksize |-> chunksize]
    /\ result = <<>>

CallChunkify ==
    /\ args.fn = "chunkify"
    /\ result = <<>>
    /\ result' = [chunks |-> chunkify(args.iterable, args.chunksize)]
    /\ UNCHANGED <<args, executor>>

SpecChunkify == InitChunkify /\ [][CallChunkify]_vars

(***************************************************************************)
(* The constructor of Recurrence (recurrence.py), up to its call of the    *)
(* constructor of the superclass.  An argument is None or <<v>> for a      *)
(* value v; `kwargs` is reduced to its 'boundary' entry: whether the key   *)
(* is there, and its value.  The result is the exception raised ("" if     *)
(* none) and the kwargs passed on.                                         *)
(***************************************************************************)
\* bool(x) for a date (always true) and for an int.
TruthyDate(x) == x # None
TruthyInt(x) == x # None /\ x[1] # 0

NoEndPattern(start) ==
    [cls |-> "NoEndPattern", start |-> start, end |-> None, number |-> None]
EndDatePattern(start, end) ==
    [cls |-> "EndDatePattern", start |-> start, end |-> end, number |-> None]
NumberedPattern(start, number) ==
    [cls |-> "NumberedPattern", start |-> start, end |-> None, number |-> number]

WithBoundary(b) == [has_boundary |-> TRUE, boundary |-> b]

\* Mutant of lines 363-364: an explicit 'boundary' is replaced silently.
Recurrence_init_override(start, end, number, kwargs) ==
    IF TruthyDate(start) \/ TruthyDate(end) \/ TruthyInt(number)
    THEN IF TruthyDate(start) /\ ~TruthyDate(end) /\ ~TruthyInt(number)
         THEN [exc |-> "", kwargs |-> WithBoundary(<<NoEndPattern(start)>>)]
         ELSE IF TruthyDate(start) /\ TruthyDate(end) /\ ~TruthyInt(number)
         THEN [exc |-> "", kwargs |-> WithBoundary(<<EndDatePattern(start, end)>>)]
         ELSE IF TruthyDate(start) /\ TruthyInt(number) /\ ~TruthyDate(end)
         THEN [exc |-> "", kwargs |-> WithBoundary(<<NumberedPattern(start, number)>>)]
         ELSE [exc |-> "ValueError", kwargs |-> kwargs]
    ELSE [exc |-> "", kwargs |-> kwargs]

\* Recurrence.__init__ (lines 357-373)
Recurrence_init(start, end, number, kwargs) ==
    IF TruthyDate(start) \/ TruthyDate(end) \/ TruthyInt(number)
    THEN IF kwargs.has_boundary
         THEN [exc |-> "ValueError", kwargs |-> kwargs]
         ELSE IF TruthyDate(start) /\ ~TruthyDate(end) /\ ~TruthyInt(number)
         THEN [exc |-> "", kwargs |-> WithBoundary(<<NoEndPattern(start)>>)]
         ELSE IF TruthyDate(start) /\ TruthyDate(end) /\ ~TruthyInt(number)
         THEN [exc |-> "", kwargs |-> WithBoundary(<<EndDatePattern(start, end)>>)]
         ELSE IF TruthyDate(start) /\ TruthyInt(number) /\ ~TruthyDate(end)
         THEN [exc |-> "", kwargs |-> WithBoundary(<<NumberedPattern(start, number)>>)]
         ELSE [exc |-> "ValueError", kwargs |-> kwargs]
    ELSE [exc |-> "", kwargs |-> kwargs]

\* The arguments: dates as day numbers, occurrence counts (0 is not a valid
\* one), and the 'boundary' entry of kwargs: absent, None or a boundary.
InitRecurrence ==
    /\ NoExecution
    /\ args \in [fn : {"Recurrence"},
                 start : {None, <<1>>, <<2>>},
                 end : {None, <<2>>, <<3>>},
                 number : {None, <<0>>, <<1>>, <<999>>},
                 kwargs : {[has_boundary |-> FALSE, boundary |-> None],
                           WithBoundary(None),
                           WithBoundary(<<NoEndPattern(<<1>>)>>),
                           WithBoundary(<<NumberedPattern(<<1>>, <<5>>)>>)}]
    /\ result = <<>>

CallRecurrence ==
    /\ args.fn = "Recurrence"
    /\ result = <<>>
    /\ result' = Recurrence_init(args.start, args.end, args.number, args.kwargs)
    /\ UNCHANGED <<args, executor>>

SpecRecurrence == InitRecurrence /\ [][CallRecurrence]_vars

(***************************************************************************)
(* safe_b64decode(data).  The argument is a str or a bytes object: a       *)
(* record of its type and its characters.                                  *)
(***************************************************************************)
\* MaxText bounds the number of characters of the text before its padding.
MaxText == 6

Str(chars) == [str |-> TRUE, chars |-> chars]
Bytes(chars) == [str |-> FALSE, chars |-> chars]

\* '=' * n
Repeat(c, n) == [i \in 1..n |-> c]

\* a + b (line 342): str and bytes do not add up.
Concat(a, b) ==
    IF a.str = b.str THEN [exc |-> "", value |-> [a EXCEPT !.chars = @ \o b.chars]]
    ELSE [exc |-> "TypeError", value |-> a]

\* Mutant of lines 338-341: the padding is a str whatever the type of data.
safe_b64decode_strpad(data) ==
    LET overflow == Len(data.chars) % 4
    IN  IF overflow # 0
        THEN LET padded == Concat(data, Str(Repeat(PAD, 4 - overflow)))
             IN  IF padded.exc # "" THEN [exc |-> padded.exc, value |-> <<>>]
                 ELSE [exc |-> "", value |-> b64decode(padded.value.chars)]
        ELSE [exc |-> "", value |-> b64decode(data.chars)]

\* safe_b64decode(data): the bytes returned (with the marker of b64decode's
\* error in them when it raises), or the exception of line 342.
safe_b64decode(data) ==
    LET overflow == Len(data.chars) % 4
    IN  IF overflow # 0
        THEN LET padding == IF data.str THEN Str(Repeat(PAD, 4 - overflow))
                            ELSE Bytes(Repeat(PAD, 4 - overflow))
                 padded == Concat(data, padding)
             IN  IF padded.exc # "" THEN [exc |-> padded.exc, value |-> <<>>]
                 ELSE [exc |-> "", value |-> b64decode(padded.value.chars)]
        ELSE [exc |-> "", value |-> b64decode(data.chars)]

\* The texts: up to MaxText characters of the base64 alphabet, one of them
\* with bits that a final group drops.
TextChars == {6, 26, 47}
Texts == UNION {[1..n -> TextChars] : n \in 0..MaxText}

\* The padding a text needs, and the text with k of these characters.
PadsNeeded(text) == (4 - (Len(text) % 4)) % 4
WithPads(text, k) == text \o Repeat(PAD, k)

InitB64 ==
    /\ NoExecution
    /\ \E text \in Texts : \E k \in 0..PadsNeeded(text) : \E is_str \in BOOLEAN :
         args = [fn |-> "safe_b64decode",
                 data |-> IF is_str THEN Str(WithPads(text, k))
                          ELSE Bytes(WithPads(text, k)),
                 full |-> WithPads(text, PadsNeeded(text))]
    /\ result = <<>>

CallSafeB64decode ==
    /\ args.fn = "safe_b64decode"
    /\ result = <<>>
    /\ result' = safe_b64decode(args.data)
    /\ UNCHANGED <<args, executor>>

NextB64 == CallSafeB64decode

SpecB64 == InitB64 /\ [][NextB64]_vars

(***************************************************************************)
(* The claims.                                                             *)
(***************************************************************************)
\* Execution p handles the response it holds: the step from line 845 on.
Handles(p) == pc[p] = "handle" /\ pc'[p] # "handle"

\* The time elapsed since execution p started (line 849).
Elapsed(p) == now - t_start[p]

RetriesAfterCoolDown(p) ==
    /\ pc'[p] = "top"
    /\ backoffs'[p] = Append(backoffs[p], wait[p])
    /\ retry'[p] = retry[p] + 1
    /\ url'[p] = url[p]

\* C1: when the first POST of a call yields status 200, the call returns
\* that response and the session the POST was sent on, after that one POST,
\* with no back_off call and no retire_session call.
C1_FirstOkReturns ==
    [][\A p \in Procs :
         (Handles(p) /\ posts[p] = 1 /\ r[p].status_code = 200) =>
            /\ pc'[p] = "done"
            /\ r'[p] = r[p]
            /\ session'[p] = session[p]
            /\ posts'[p] = 1
            /\ backoffs'[p] = <<>>
            /\ retired'[p] = <<>>
            /\ exc'[p] = ""]_vars

\* C1 witness: a call has returned a 200 response after one POST, sent on the
\* session renewed after a pending cool-down.
C1_Witness ==
    \E p \in Procs :
        /\ pc[p] = "done" /\ posts[p] = 1 /\ r[p].status_code = 200
        /\ session[p] = 1

\* C2: the k-th back_off call of a call records 10*2^(k-1) seconds, and with
\* fail_fast false a 503 response is retried after a cool-down while the time
\* elapsed is at most max_wait, and raises RateLimitError once it is more.
C2_Retry503Doubling ==
    /\ [](\A p \in Procs :
            /\ wait[p] = RETRY_WAIT * 2^retry[p]
            /\ Len(backoffs[p]) = retry[p]
            /\ \A k \in 1..Len(backoffs[p]) : backoffs[p][k] = RETRY_WAIT * 2^(k-1))
    /\ [][\A p \in Procs :
            (Handles(p) /\ r[p].status_code = 503 /\ ~retry_policy.fail_fast) =>
               IF Elapsed(p) > retry_policy.max_wait
               THEN /\ pc'[p] = "raised"
                    /\ exc'[p] = "RateLimitError"
                    /\ backoffs'[p] = backoffs[p]
               ELSE RetriesAfterCoolDown(p)]_vars

\* C2 witness: a call that recorded the cool-downs 10, 20, 40 has raised
\* RateLimitError on a 503 response.
C2_Witness ==
    \E p \in Procs :
        /\ pc[p] = "raised" /\ exc[p] = "RateLimitError"
        /\ r[p].status_code = 503
        /\ backoffs[p] = <<10, 20, 40>>

\* C3: a response with status 500 and an XML body is returned, whatever the
\* retry policy, the headers and the time elapsed.
C3_Xml500Returned ==
    [][\A p \in Procs :
         (Handles(p) /\ r[p].status_code = 500 /\ is_xml(r[p].content)) =>
            /\ pc'[p] = "done"
            /\ r'[p] = r[p]
            /\ exc'[p] = ""]_vars

\* A 500 response whose body is not XML and holds no server-error marker.
IsPlain500(response) ==
    /\ response.status_code = 500
    /\ ~is_xml(response.content)
    /\ ~Contains(response.content, ServerErrorMarker)

FailsWithoutRetry(p) ==
    /\ pc'[p] = "raised"
    /\ exc'[p] # ""
    /\ backoffs'[p] = backoffs[p]
    /\ posts'[p] = posts[p]

\* C4 as stated: a 500 response whose body is not XML and holds no
\* server-error marker raises an error with no retry, whatever the retry
\* policy and the headers.
C4_Plain500Fatal ==
    [][\A p \in Procs :
         (Handles(p) /\ IsPlain500(r[p])) => FailsWithoutRetry(p)]_vars

\* C4 as amended: such a response raises an error with no retry, unless
\* fail_fast is false, the response has the header connection: close and the
\* time elapsed is at most max_wait: then it is retried after a cool-down.
C4_Plain500FatalUnlessClose ==
    [][\A p \in Procs :
         (Handles(p) /\ IsPlain500(r[p])) =>
            IF /\ ~retry_policy.fail_fast
               /\ Get(r[p].headers, "connection", "") = "close"
               /\ Elapsed(p) <= retry_policy.max_wait
            THEN RetriesAfterCoolDown(p)
            ELSE FailsWithoutRetry(p)]_vars

\* C4 witness: a call has raised on such a response, with fail_fast false,
\* before max_wait had elapsed, and without a back_off call.
C4_Witness ==
    \E p \in Procs :
        /\ pc[p] = "raised" /\ IsPlain500(r[p]) /\ backoffs[p] = <<>>
        /\ ~retry_policy.fail_fast
        /\ total_wait[p] <= retry_policy.max_wait
        /\ r[p].content # <<>>

\* C5: a returned response has status 200, or status 500 and an XML body;
\* when the loop ends on another response the session is retired and an
\* error is raised.
C5_OnlyUsefulReturned ==
    /\ [](\A p \in Procs :
            pc[p] = "done" =>
               \/ r[p].status_code = 200
               \/ r[p].status_code = 500 /\ is_xml(r[p].content))
    /\ [][\A p \in Procs :
            (Break(p) /\ pc'[p] # "handle"
               /\ ~(\/ r[p].status_code = 200
                    \/ r[p].status_code = 500 /\ is_xml(r[p].content))) =>
               /\ pc'[p] = "raised"
               /\ exc'[p] # ""
               /\ retired'[p] = <<session[p]>>]_vars

\* C5 witness: a call has returned a response with status 500.
C5_Witness ==
    \E p \in Procs : pc[p] = "done" /\ r[p].status_code = 500

\* C6: a call that has raised has made exactly one retire_session call, on
\* the session it held then; a call that has not raised has made none.
C6_RetiredIffRaised ==
    \A p \in Procs :
        /\ pc[p] = "raised" => retired[p] = <<session[p]>> /\ exc[p] # ""
        /\ pc[p] # "raised" => retired[p] = <<>> /\ exc[p] = ""

\* C6 witness: a call has raised the exception of refresh_credentials or
\* renew_session while holding a session that is not the caller's.
C6_Witness ==
    \E p \in Procs :
        /\ pc[p] = "raised" /\ exc[p] = "SessionError" /\ session[p] = 1
        /\ retired[p] = <<1>>

\* The typed errors of post_ratelimited.
TypedErrors ==
    {"TransportError", "RateLimitError", "RedirectError", "CASError",
     "UnauthorizedError", "ErrorInvalidSchemaVersionForMailboxVersion"}

\* Exceptions the loop does not catch, which pass through it as they are:
\* of renew_session and refresh_credentials, and of the transport outside
\* the classes of lines 814-824.
PassThrough == {"SessionError", "Unhandled"}

C8_FailFastOnePost ==
    [][\A p \in Procs :
         (Handles(p) /\ retry_policy.fail_fast) =>
            /\ posts[p] = 1
            /\ IF r[p].status_code = 200
               THEN pc'[p] = "done"
               ELSE pc'[p] = "raised"]_vars

\* C9: every call returns or raises in the end.
C9_Terminates == <>(pc["a"] \in {"done", "raised"})

\* The shared back_off_until lies in the future.
InCoolDown ==
    /\ retry_policy.back_off_until # <<>>
    /\ retry_policy.back_off_until[1] > now

\* C10: no execution sends a POST while the shared back_off_until lies in the
\* future.
C10_NoPostInCoolDown ==
    [][\A p \in Procs : (pc[p] = "post" /\ pc'[p] # "post") => ~InCoolDown]_vars

\* C11: back_off_until never moves earlier and is never cleared by a step of
\* an execution; a back_off call made while a cool-down that ends later than
\* its own is pending leaves back_off_until as it is.
C11_BackOffMonotonic ==
    [][/\ retry_policy.back_off_until # <<>> =>
            /\ retry_policy'.back_off_until # <<>>
            /\ retry_policy'.back_off_until[1] >= retry_policy.back_off_until[1]
       /\ \A p \in Procs :
            (/\ Handles(p)
             /\ backoffs'[p] # backoffs[p]
             /\ retry_policy.back_off_until # <<>>
             /\ retry_policy.back_off_until[1] > now + wait[p]) =>
               retry_policy' = retry_policy]_vars

\* C11 witness: an execution has recorded its first cool-down (10 s) while
\* the cool-down of another execution's second retry (20 s) was pending,
\* which still ends later than 10 s from now.
C11_Witness ==
    /\ outlasted
    /\ retry_policy.back_off_until # <<>>
    /\ \E p, q \in Procs :
         /\ backoffs[p] = <<10>> /\ pc[p] = "top" /\ total_wait[p] = now
         /\ backoffs[q] = <<10, 20>>
         /\ retry_policy.back_off_until[1] > now + 10

\* Execution p handles a 301/302 response that _may_retry_on_error has let
\* pass (it returned False): the step of lines 858-861.
HandlesRedirect(p) ==
    /\ Handles(p)
    /\ r[p].status_code \in {301, 302}
    /\ MayRetry(p) = "False"

\* The target a redirect response resolves to.
ResolvedTarget(response) == get_redirect_url(response, TRUE, FALSE).url

\* The redirect response names a target, which is not the URL of the request.
RedirectsElsewhere(response) ==
    /\ "location" \in DOMAIN response.headers
    /\ ResolvedTarget(response) # response.url

CrossesOrigin(response) ==
    \/ ResolvedTarget(response).scheme # response.url.scheme
    \/ ResolvedTarget(response).netloc # response.url.netloc

\* C12: a 301/302 response that is not retried, is not a redirect to the URL
\* of the request and is not beyond the redirect limit raises RedirectError
\* when allow_redirects is false and the target differs from the request URL
\* in scheme or host, and is followed with a new POST to the target
\* otherwise.
C12_RedirectErrorIffCrossOrigin ==
    [][\A p \in Procs :
         (/\ HandlesRedirect(p)
          /\ RedirectsElsewhere(r[p])
          /\ redirects[p] < MAX_REDIRECTS) =>
            IF ~allow_redirects /\ CrossesOrigin(r[p])
            THEN pc'[p] = "raised" /\ exc'[p] = "RedirectError"
            ELSE /\ pc'[p] = "top"
                 /\ url'[p] = ResolvedTarget(r[p])
                 /\ exc'[p] = ""]_vars

\* C13: a 301/302 response that is not retried and whose target is the URL
\* the request was sent to raises TransportError and retires the session;
\* a call that has raised sends no further POST.
C13_SameLocationFatal ==
    /\ [][\A p \in Procs :
            (/\ HandlesRedirect(p)
             /\ "location" \in DOMAIN r[p].headers
             /\ ResolvedTarget(r[p]) = url[p]) =>
               /\ pc'[p] = "raised"
               /\ exc'[p] = "TransportError"
               /\ retired'[p] = <<session[p]>>
               /\ url'[p] = url[p]
               /\ posts'[p] = posts[p]]_vars
    /\ [][\A p \in Procs :
            pc[p] = "raised" => pc'[p] = "raised" /\ posts'[p] = posts[p]]_vars

\* C13 witness: a call that followed a redirect to another host has raised
\* TransportError on a redirect to the URL of its second request.
C13_Witness ==
    \E p \in Procs :
        /\ pc[p] = "raised" /\ exc[p] = "TransportError"
        /\ r[p].status_code \in {301, 302}
        /\ "location" \in DOMAIN r[p].headers
        /\ ResolvedTarget(r[p]) = url[p]
        /\ url[p] # URL0
        /\ redirects[p] = 1
        /\ retired[p] = <<session[p]>>

\* _redirect_or_fail would follow the response if the limit allowed.
WouldFollow(p) ==
    /\ allow_redirects
    /\ get_redirect_url(r[p], FALSE, FALSE).exc = ""

\* C14: the redirect count of a call is at most MAX_REDIRECTS; it goes up by
\* one with each redirect followed and never changes otherwise, whatever
\* retries and credential refreshes come between; a redirect that would be
\* followed when the count is MAX_REDIRECTS raises TransportError.
C14_RedirectsCapped ==
    /\ [](\A p \in Procs : redirects[p] <= MAX_REDIRECTS)
    /\ [][\A p \in Procs :
            IF HandlesRedirect(p) /\ pc'[p] = "top"
            THEN redirects'[p] = redirects[p] + 1
            ELSE redirects'[p] = redirects[p]]_vars
    /\ [][\A p \in Procs :
            (HandlesRedirect(p) /\ WouldFollow(p) /\ redirects[p] = MAX_REDIRECTS) =>
               /\ pc'[p] = "raised"
               /\ exc'[p] = "TransportError"
               /\ posts'[p] = posts[p]]_vars

\* C14 witness: a call that followed MAX_REDIRECTS redirects, with a
\* credential refresh or a session renewal between them, has raised
\* TransportError on one more redirect to another host.
C14_Witness ==
    \E p \in Procs :
        /\ pc[p] = "raised" /\ exc[p] = "TransportError"
        /\ redirects[p] = MAX_REDIRECTS
        /\ r[p].status_code \in {301, 302}
        /\ "location" \in DOMAIN r[p].headers
        /\ ResolvedTarget(r[p]) # url[p]
        /\ allow_redirects
        /\ session[p] >= 1

\* A Location value that is an absolute path and nothing else.
IsAbsolutePath(loc) ==
    /\ loc.scheme = "" /\ loc.netloc = "" /\ loc.query = ""
    /\ StartsWithSlash(loc.path)

\* A Location value that is an absolute URL: scheme, host and path.
IsAbsoluteUrl(loc) ==
    /\ loc.scheme # "" /\ loc.netloc # ""
    /\ StartsWithSlash(loc.path)

\* C15: when get_redirect_url, called with its default flags, returns, then
\* for a Location that is an absolute path the result is the scheme and the
\* host of the response URL followed by that path, and for a Location that
\* is an absolute URL the result is the Location value (up to the case of
\* the host name, which the code lowers).
C15_RedirectResolution ==
    (/\ result # <<>>
     /\ args.fn = "get_redirect_url"
     /\ args.allow_relative /\ ~args.require_relative
     /\ result.exc = "") =>
        LET response == args.response
            loc == response.headers["location"]
        IN  /\ IsAbsolutePath(loc) =>
                 result.url = Url(response.url.scheme, Lower(response.url.netloc),
                                  loc.path, "")
            /\ IsAbsoluteUrl(loc) => result.url = [loc EXCEPT !.netloc = Lower(@)]

\* The iteration of DocumentYielder has ended.
Yielded == result # <<>> /\ args.fn = "DocumentYielder"

\* The whole stream was delivered.
Uncut == args.cut = Len(Flatten(args.parts))

\* C16: for a stream of n >= 0 back-to-back documents with attributes in the
\* root tag, DocumentYielder yields n items, the i-th being the declaration
\* line followed by the bytes of the i-th document.
C16_AttrDocsYielded ==
    (/\ Yielded /\ Uncut
     /\ \A i \in DOMAIN args.parts : args.parts[i] \in AttrDocs) =>
        /\ result.exc = ""
        /\ result.items = [i \in DOMAIN args.parts |-> XmlDeclaration \o args.parts[i]]

\* C16 witness: a stream of two different documents with attributes has
\* yielded two items.
C16_Witness ==
    /\ Yielded /\ Uncut
    /\ Len(args.parts) = 2
    /\ args.parts[1] \in AttrDocs /\ args.parts[2] \in AttrDocs
    /\ args.parts[1] # args.parts[2]
    /\ Len(result.items) = 2

\* The documents of the stream that were delivered up to their end tag, in
\* stream order; `before` is the number of bytes that precede `parts`.
RECURSIVE CompleteDocs(_, _, _)
CompleteDocs(parts, before, cut) ==
    IF parts = <<>> THEN <<>>
    ELSE LET end == before + Len(Head(parts))
             rest == CompleteDocs(Tail(parts), end, cut)
         IN  IF Head(parts) \in Docs /\ end <= cut
             THEN <<Head(parts)>> \o rest
             ELSE rest

\* C17: every complete document of the stream is yielded once, as an item of
\* its own, whatever stands before it and between it and its neighbours, and
\* whether its root tag has attributes or not.
C17_EveryDocYieldedOnce ==
    Yielded =>
        LET docs == CompleteDocs(args.parts, 0, args.cut)
        IN  result.items = [i \in DOMAIN docs |-> XmlDeclaration \o docs[i]]

\* The number of end tokens in a byte string.
CountEndTokens(b) ==
    Cardinality({i \in 1..Len(b) : EndsWith(SubSeq(b, 1, i), EndToken)})

\* C18: wherever the iterator is exhausted, the iteration ends without an
\* error, every item yielded ends with the end token, and no more items are
\* yielded than end tokens were delivered.
C18_NoIncompleteDoc ==
    Yielded =>
        /\ result.exc = ""
        /\ \A i \in DOMAIN result.items : EndsWith(result.items[i], EndToken)
        /\ Len(result.items) <= CountEndTokens(Delivered(args))

\* C18 witness: the iterator was exhausted inside the second document of a
\* stream, after its start tag, and the first document alone was yielded.
C18_Witness ==
    /\ Yielded
    /\ Len(args.parts) = 2
    /\ args.parts[1] \in AttrDocs /\ args.parts[2] \in AttrDocs
    /\ args.cut > Len(args.parts[1]) + Len(StartToken) + 1
    /\ args.cut < Len(Flatten(args.parts))
    /\ result.items = <<XmlDeclaration \o args.parts[1]>>

\* parse has ended: its generator is exhausted or has raised.
Parsed == result # <<>> /\ args.fn = "parse"

\* The start tag of the target element is in the stream.
TargetSeen(chunks) ==
    \E k \in DOMAIN chunks : \E i \in DOMAIN chunks[k] :
        chunks[k][i].kind = "start" /\ chunks[k][i].name = TargetName

\* C19: however the stream is cut into read chunks and the character data
\* into fragments, the chunks parse yields, joined, are the base64 decoding
\* of the character content of the target element, and nothing else.
C19_StreamedEqualsDecoded ==
    (Parsed /\ TargetSeen(args.chunks) /\ args.content \in Contents) =>
        /\ result.exc = ""
        /\ Flatten(result.items) = b64decode(args.content)

\* C19 witness: b'hello' was yielded in two or more chunks from a stream
\* read in three chunks, with a fragment whose length is not a multiple of 4.
C19_Witness ==
    /\ Parsed
    /\ Len(args.chunks) = 3
    /\ \E k \in DOMAIN args.chunks : \E i \in DOMAIN args.chunks[k] :
         /\ args.chunks[k][i].kind = "chars"
         /\ Len(args.chunks[k][i].text) % 4 # 0
    /\ Len(result.items) >= 2
    /\ Flatten(result.items) = <<104, 101, 108, 108, 111>>

\* C20: parse raises ElementNotFound exactly when the stream holds no start
\* tag of the target element; the error carries all that was read and
\* nothing was yielded before it; an empty target element yields nothing and
\* raises nothing.
C20_NotFoundIffAbsent ==
    Parsed =>
        /\ result.exc = "ElementNotFound" <=> ~TargetSeen(args.chunks)
        /\ result.exc \in {"", "ElementNotFound"}
        /\ result.exc = "ElementNotFound" =>
              /\ result.data = Flatten(args.chunks)
              /\ result.items = <<>>
        /\ (TargetSeen(args.chunks) /\ args.content = <<>>) =>
              result.items = <<>> /\ result.exc = ""

\* C20 witness: a stream read in three chunks, with an element of the
\* target's local name in another namespace, has raised ElementNotFound.
C20_Witness ==
    /\ Parsed
    /\ Len(args.chunks) = 3
    /\ ~TargetSeen(args.chunks)
    /\ result.exc = "ElementNotFound"
    /\ Len(result.data) = Len(DocumentWithout)

\* `text` followed by the '=' characters that make its length a multiple of 4.
PaddedTo4(text) == text \o [i \in 1..((4 - (Len(text) % 4)) % 4) |-> PAD]

\* C21: when the base64 text of the target element lacks its trailing
\* padding, the chunks parse yields, joined, are the decoding of the text
\* padded to a multiple of 4: the final partial group is decoded too.
C21_UnpaddedDecoded ==
    (Parsed /\ TargetSeen(args.chunks) /\ Len(args.content) % 4 # 0) =>
        /\ result.exc = ""
        /\ Flatten(result.items) = b64decode(PaddedTo4(args.content))

\* safe_b64decode has returned or raised.
Decoded == result # <<>> /\ args.fn = "safe_b64decode"

\* C22: for str and bytes input alike, safe_b64decode returns the decoding
\* of its input followed by (4 - len mod 4) mod 4 padding characters: an
\* input that lost some or all of its padding decodes to the bytes of its
\* padded form, an input whose length is a multiple of 4 to its own.
C22_PaddingAdded ==
    Decoded =>
        /\ result.exc = ""
        /\ result.value = b64decode(PaddedTo4(args.data.chars))
        /\ Len(args.data.chars) % 4 \in {2, 3} => result.value = b64decode(args.full)
        /\ Len(args.data.chars) % 4 = 0 => result.value = b64decode(args.data.chars)

\* C22 witness: a bytes input of 6 characters, with no padding left, was
\* decoded to the 4 bytes of its padded form.
C22_Witness ==
    /\ Decoded
    /\ ~args.data.str
    /\ Len(args.data.chars) = 6
    /\ Len(args.full) = 8
    /\ \A i \in DOMAIN args.data.chars : args.data.chars[i] # PAD
    /\ result.exc = ""
    /\ Len(result.value) = 4
    /\ result.value = b64decode(args.full)

\* The consumer is done with the generator of parse.
ConsumerDone ==
    /\ args.fn = "iter(parse)"
    /\ result.status \in {"finished", "raised", "closed"}

\* C23: once the consumer is done with the generator, because the stream has
\* ended (the generator returned or raised ElementNotFound) or because it
\* stopped iterating after it was given some of the chunks, the response is
\* closed.
C23_ResponseClosed ==
    (ConsumerDone /\ (result.status = "closed" => result.yielded # <<>>)) =>
        result.r_closed

\* C24: when an execution sends its next attempt, and when it has raised,
\* every response that session.post returned to it has been closed.
C24_ResponsesClosed ==
    \A p \in Procs :
        pc[p] \in {"top", "sleep", "post", "raised"} => unclosed[p] = 0

\* renew_session (line 805) or refresh_credentials (line 847) returns a
\* session to execution p.
GetsSession(p) ==
    \/ pc[p] = "sleep" /\ pc'[p] = "post"
    \/ pc[p] = "handle" /\ need_new_credentials(r[p]) /\ pc'[p] = "top"

\* C25: a call returns the response of its last POST with the session that
\* POST was sent on; and the session of a call is what the most recent
\* renew_session or refresh_credentials call returned, the caller's if
\* there was none: it changes with these calls and with nothing else.
C25_SessionReturned ==
    /\ [][\A p \in Procs :
            /\ pc'[p] = "handle" => pc[p] \in {"post", "handle"}
            /\ pc'[p] = "done" => pc[p] \in {"handle", "done"}
            /\ (pc[p] = "post" /\ pc'[p] = "handle") => session'[p] = session[p]
            /\ (pc[p] = "handle" /\ pc'[p] = "done") =>
                  session'[p] = session[p] /\ r'[p] = r[p]]_vars
    /\ [][\A p \in Procs :
            IF GetsSession(p)
            THEN session'[p] = NewSession(session[p])
            ELSE session'[p] = session[p]]_vars
    /\ [](\A p \in Procs :
            (\A q \in Procs : posts[q] = 0 /\ pc[q] \in {"idle", "top"}) =>
               session[p] = 0)

\* C25 witness: a call has returned, after one backoff retry, with the
\* session that renew_session gave it after the cool-down.
C25_Witness ==
    \E p \in Procs :
        /\ pc[p] = "done"
        /\ session[p] = 1
        /\ backoffs[p] = <<10>>
        /\ retired[p] = <<>>

\* The placeholder response of an attempt that failed with an expired token.
IsTokenExpired(response) ==
    /\ response.status_code = 401
    /\ "TokenExpiredError" \in DOMAIN response.headers

\* C26: an attempt that failed with an expired token makes the call refresh
\* its credentials and go back to the top of the loop with the refreshed
\* session and the same URL, with no back_off call, the same wait and retry
\* count and no cool-down to wait for, whatever fail_fast, max_wait and the
\* time elapsed are (or the call raises what refresh_credentials raised);
\* from there the POST is sent without a sleep, on that session, to that URL.
C26_TokenExpiredRefresh ==
    /\ [][\A p \in Procs :
            (Handles(p) /\ IsTokenExpired(r[p])) =>
               /\ backoffs'[p] = backoffs[p]
               /\ retry_policy' = retry_policy
               /\ wait'[p] = wait[p]
               /\ retry'[p] = retry[p]
               /\ url'[p] = url[p]
               /\ posts'[p] = posts[p]
               /\ now' = now
               /\ \/ /\ pc'[p] = "top"
                     /\ session'[p] = NewSession(session[p])
                     /\ exc'[p] = ""
                     /\ ~(/\ retry_policy.back_off_until # <<>>
                          /\ retry_policy.back_off_until[1] > now)
                  \/ /\ pc'[p] = "raised"
                     /\ exc'[p] = "SessionError"]_vars
    /\ [][\A p \in Procs :
            (pc[p] = "top" /\ pc'[p] # "top" /\ ~InCoolDown) =>
               /\ pc'[p] = "post"
               /\ now' = now
               /\ session'[p] = session[p]
               /\ url'[p] = url[p]]_vars
    /\ [][\A p \in Procs :
            (pc[p] = "post" /\ pc'[p] # "post") =>
               /\ session'[p] = session[p]
               /\ url'[p] = url[p]
               /\ r'[p].url = url[p]]_vars

\* C26 witness: with fail_fast false, a call whose two POSTs both failed
\* with an expired token is back at the top of the loop with its second
\* refreshed session, no back_off call made, wait and retry count as at the
\* start, and more than max_wait elapsed.
C26_Witness ==
    \E p \in Procs :
        /\ pc[p] = "top"
        /\ posts[p] = 2
        /\ session[p] = 2
        /\ redirects[p] = 0
        /\ backoffs[p] = <<>>
        /\ retry_policy.back_off_until = <<>>
        /\ ~retry_policy.fail_fast
        /\ now - t_start[p] > retry_policy.max_wait
        /\ wait[p] = RETRY_WAIT /\ retry[p] = 0
        /\ url[p] = URL0

\* session.post raises a TLS error.
TlsError == [exc |-> "TLS_ERRORS", answer |-> <<>>]

\* C27: a TLS error of the transport, on any attempt and under any retry
\* policy, makes the call raise TransportError with its session retired and
\* no back_off call; a call that has raised sends no POST.
C27_TlsErrorFatal ==
    /\ [][\A p \in Procs : \A d \in Durations :
            Post(p, TlsError, d) =>
               /\ pc'[p] = "raised"
               /\ exc'[p] = "TransportError"
               /\ retired'[p] = <<session[p]>>
               /\ backoffs'[p] = backoffs[p]
               /\ retry_policy' = retry_policy]_vars
    /\ [][\A p \in Procs :
            pc[p] = "raised" =>
               /\ posts'[p] = posts[p]
               /\ backoffs'[p] = backoffs[p]
               /\ retry_policy' = retry_policy]_vars

\* C27 witness: with fail_fast false and max_wait not yet elapsed, the
\* second attempt of a call, sent after a backoff retry, got no response,
\* and the call has raised TransportError.
C27_Witness ==
    \E p \in Procs :
        /\ pc[p] = "raised" /\ exc[p] = "TransportError"
        /\ r[p] = DummyResponse(url[p], NoHeaders, 503)
        /\ unclosed[p] = 0
        /\ posts[p] = 2
        /\ backoffs[p] = <<10>>
        /\ retired[p] = <<session[p]>>
        /\ ~retry_policy.fail_fast
        /\ now - t_start[p] <= retry_policy.max_wait

\* session.post raises a connection error or a timeout.
ConnectionError == [exc |-> "CONNECTION_ERRORS", answer |-> <<>>]

\* The placeholder response of an attempt that failed with such an error.
IsConnectionFailure(response) ==
    /\ "TimeoutException" \in DOMAIN response.headers
    /\ response.content = <<>>

\* C28: a connection error or a timeout of the transport puts a placeholder
\* response with status 503 in the place of the response; with fail_fast
\* false that response is handled as a 503 response is: while the time
\* elapsed is at most max_wait, back_off(wait) is called, wait is doubled
\* and the request is sent again to the same URL; once it is more,
\* RateLimitError is raised.
C28_ConnectionErrorAs503 ==
    /\ [][\A p \in Procs : \A d \in Durations :
            Post(p, ConnectionError, d) =>
               /\ pc'[p] = "handle"
               /\ r'[p].status_code = 503
               /\ IsConnectionFailure(r'[p])
               /\ r'[p].url = url[p]
               /\ exc'[p] = ""]_vars
    /\ [][\A p \in Procs :
            (Handles(p) /\ IsConnectionFailure(r[p]) /\ ~retry_policy.fail_fast) =>
               IF Elapsed(p) > retry_policy.max_wait
               THEN /\ pc'[p] = "raised"
                    /\ exc'[p] = "RateLimitError"
                    /\ backoffs'[p] = backoffs[p]
                    /\ posts'[p] = posts[p]
               ELSE /\ RetriesAfterCoolDown(p)
                    /\ wait'[p] = 2 * wait[p]
                    /\ retry_policy' = back_off(retry_policy, now, wait[p])
                    /\ exc'[p] = ""]_vars

\* C28 witness: a call whose attempts were retried after cool-downs of 10
\* and 20 seconds has raised RateLimitError on an attempt that failed with
\* a connection error after more than max_wait.
C28_Witness ==
    \E p \in Procs :
        /\ pc[p] = "raised" /\ exc[p] = "RateLimitError"
        /\ IsConnectionFailure(r[p])
        /\ r[p].status_code = 503
        /\ backoffs[p] = <<10, 20>>
        /\ wait[p] = 40
        /\ unclosed[p] = 0
        /\ total_wait[p] > retry_policy.max_wait

\* C29: at the top of the loop, an execution that finds back_off_until set
\* and in the future sleeps until then, and is then given a session by
\* renew_session, once, on which the POST is sent (or raises what
\* renew_session raised); one that finds it unset or not in the future goes
\* on to the POST with no sleep and the session it has.
C29_BackOffThenRenew ==
    /\ [][\A p \in Procs :
            (pc[p] = "top" /\ pc'[p] # "top") =>
               /\ session'[p] = session[p]
               /\ now' = now
               /\ IF InCoolDown
                  THEN /\ pc'[p] = "sleep"
                       /\ sleep_until'[p] = retry_policy.back_off_until[1]
                  ELSE pc'[p] = "post"]_vars
    /\ [][\A p \in Procs :
            (pc[p] = "sleep" /\ pc'[p] # "sleep") =>
               /\ now' >= sleep_until[p]
               /\ now' = Max(now, sleep_until[p])
               /\ posts'[p] = posts[p]
               /\ \/ pc'[p] = "post" /\ session'[p] = NewSession(session[p])
                  \/ pc'[p] = "raised" /\ exc'[p] = "SessionError"]_vars
    /\ [][\A p \in Procs :
            (pc[p] = "post" /\ pc'[p] # "post") =>
               /\ session'[p] = session[p]
               /\ posts'[p] = Min(posts[p] + 1, MaxPosts)]_vars
    /\ [][\A p \in Procs : pc'[p] = "post" => pc[p] \in {"top", "sleep", "post"}]_vars

\* C29 witness: a call that found a cool-down pending until 20 at its
\* start is about to send its first POST, at 20, on a renewed session.
C29_Witness ==
    \E p \in Procs :
        /\ pc[p] = "post"
        /\ posts[p] = 0
        /\ now = 20
        /\ session[p] = 1
        /\ retry_policy.back_off_until = <<20>>

\* The conditions under which a response is retried after a cool-down.
EligibleForRetry(response, policy, elapsed) ==
    /\ response.status_code \in {301, 302, 401, 500, 503}
    /\ ~policy.fail_fast
    /\ elapsed <= policy.max_wait
    /\ \/ response.status_code = 401
       \/ /\ "connection" \in DOMAIN response.headers
          /\ response.headers["connection"] = "close"
       \/ /\ response.status_code = 302
          /\ "location" \in DOMAIN response.headers
          /\ LET loc == response.headers["location"]
             IN  /\ loc.scheme = "" /\ loc.netloc = ""
                 /\ LowerSeq(loc.path) = <<"/", "ews/genericerrorpage.htm">>
                 /\ Lower(loc.query) = "aspxerrorpath=/ews/exchange.asmx"
       \/ response.status_code = 503
       \/ /\ response.status_code = 500
          /\ Contains(response.content, ServerErrorMarker)

\* The step is a backoff retry: back_off(wait) called once, retry count
\* incremented, wait doubled, back to the top of the loop with the same URL.
IsBackOffRetry(p) ==
    /\ RetriesAfterCoolDown(p)
    /\ wait'[p] = 2 * wait[p]
    /\ retry_policy' = back_off(retry_policy, now, wait[p])

\* C30 as stated: the response of an attempt leads to a backoff retry if and
\* only if its status is one of 301, 302, 401, 500, 503, fail_fast is
\* false, the time elapsed is at most max_wait and one of the five retry
\* conditions holds; back_off is never called under fail_fast.
C30_RetryIffEligible ==
    /\ [][\A p \in Procs :
            Handles(p) =>
               /\ IsBackOffRetry(p) <=> EligibleForRetry(r[p], retry_policy, Elapsed(p))
               /\ ~IsBackOffRetry(p) =>
                     backoffs'[p] = backoffs[p] /\ retry_policy' = retry_policy]_vars
    /\ [](\A p \in Procs : retry_policy.fail_fast => backoffs[p] = <<>>)

\* C30 as amended: the same, except that the placeholder response of an
\* attempt that failed with an expired token (status 401, TokenExpiredError
\* header) never leads to a backoff retry.
C30_RetryIffEligibleUnlessTokenExpired ==
    /\ [][\A p \in Procs :
            Handles(p) =>
               /\ IsBackOffRetry(p) <=>
                     /\ ~IsTokenExpired(r[p])
                     /\ EligibleForRetry(r[p], retry_policy, Elapsed(p))
               /\ ~IsBackOffRetry(p) =>
                     backoffs'[p] = backoffs[p] /\ retry_policy' = retry_policy]_vars
    /\ [](\A p \in Procs : retry_policy.fail_fast => backoffs[p] = <<>>)

\* C30 witness: a call is back at the top of the loop after its second
\* backoff retry, made when the time elapsed was exactly max_wait.
C30_Witness ==
    \E p \in Procs :
        /\ pc[p] = "top"
        /\ backoffs[p] = <<10, 20>>
        /\ retry[p] = 2 /\ wait[p] = 40
        /\ url[p] = URL0
        /\ ~retry_policy.fail_fast
        /\ total_wait[p] = retry_policy.max_wait

\* The response meets the retry-eligibility conditions (status, fail_fast and
\* one of the five retry conditions): it is retried when it arrives in time.
WouldBeRetried(response, policy) == EligibleForRetry(response, policy, 0)

\* The step ends the call of execution p with RateLimitError.
RaisesRateLimitError(p) ==
    Handles(p) /\ pc'[p] = "raised" /\ exc'[p] = "RateLimitError"

\* C31: RateLimitError is raised only in place of a retry: only for a
\* response that meets the retry-eligibility conditions and arrives when the
\* time elapsed since the call started exceeds max_wait; a response that
\* would not have been retried never ends the call with RateLimitError,
\* whatever the elapsed time.
C31_RateLimitOnlyInPlaceOfRetry ==
    [][\A p \in Procs :
          RaisesRateLimitError(p) =>
             /\ WouldBeRetried(r[p], retry_policy)
             /\ Elapsed(p) > retry_policy.max_wait]_vars

\* The half of C31 that the code keeps: RateLimitError is raised only when
\* the time elapsed exceeds max_wait and the policy is not fail_fast.
C31_RateLimitOnlyPastMaxWait ==
    [][\A p \in Procs :
          RaisesRateLimitError(p) =>
             /\ Elapsed(p) > retry_policy.max_wait
             /\ ~retry_policy.fail_fast]_vars

\* The characters of self.buffer that the generator of _decode_buffer g has
\* received and not passed to b64decode: its remainder and the fragments
\* the loop has not taken yet.
RECURSIVE TotalLen(_)
TotalLen(fragments) ==
    IF fragments = <<>> THEN 0 ELSE Len(Head(fragments)) + TotalLen(Tail(fragments))

Undecoded(g) ==
    IF g.status = "finished" THEN TotalLen(g.buffer)
    ELSE Len(g.remainder) + TotalLen(SubSeq(g.buffer, g.i, Len(g.buffer)))

\* C32 as stated: every decode step consumes a number of characters that is
\* a multiple of 4, and at every point where a decoded chunk is handed to
\* the consumer the characters received and not yet decoded number at
\* most 3.
C32_DecodeMultipleOf4 ==
    result.status = "suspended" =>
       /\ Len(result.data) % 4 = 0
       /\ Undecoded(result) <= 3

\* C32 as amended: every decode step passes to b64decode a number of
\* characters that is a multiple of 4; at every point where a decoded chunk
\* is handed to the consumer, the characters the decoder has taken from the
\* buffer and not decoded number at most 3 (the fragments of the same feed
\* it has not taken yet are still held in full), and once the chunks of a
\* feed have all been handed over the buffer holds at most 3 characters.
C32_DecodeMultipleOf4CarryAtMost3 ==
    /\ result.status = "suspended" =>
          /\ result.data # <<>>
          /\ Len(result.data) % 4 = 0
          /\ Len(result.remainder) <= 3
          /\ Undecoded(result) =
                Len(result.remainder)
                + TotalLen(SubSeq(args.buffer, result.i, Len(args.buffer)))
    /\ result.status = "finished" =>
          /\ Undecoded(result) <= 3
          /\ Len(result.buffer) <= 1

\* C32 witness: a chunk has been handed over while the decoder carries 3
\* characters and a later fragment of the same feed is still undecoded.
C32_Witness ==
    /\ result.status = "suspended"
    /\ Len(result.remainder) = 3
    /\ result.i <= Len(args.buffer)
    /\ Undecoded(result) > 3

\* The URL of the request a redirect response answers.
RequestOf(response) ==
    IF response.history # <<>> THEN response.history[1] ELSE response.url

\* The redirect target has the scheme and the host of the request.
SameSchemeAndHost(target, request) ==
    /\ target.scheme = request.scheme
    /\ Lower(target.netloc) = Lower(request.netloc)

\* C33: get_redirect_url classifies a redirect as relative exactly when the
\* target's scheme and host both equal those of the request: where it does
\* not fail with TransportError, with allow_relative=False alone it raises
\* RelativeRedirect exactly for such targets, and with require_relative=True
\* alone exactly for targets whose scheme or host differs.
C33_RelativeIffSameSchemeAndHost ==
    (result # <<>> /\ result.exc # "TransportError") =>
       LET relative == SameSchemeAndHost(result.url, RequestOf(args.response))
       IN  /\ (~args.allow_relative /\ ~args.require_relative) =>
                 (result.exc = "RelativeRedirect" <=> relative)
           /\ (args.allow_relative /\ args.require_relative) =>
                 (result.exc = "RelativeRedirect" <=> ~relative)

\* Execution p follows a redirect: handling the response sends it back to
\* the top of the loop with another URL or another redirect count.
FollowsRedirect(p) ==
    /\ Handles(p)
    /\ pc'[p] = "top"
    /\ (url'[p] # url[p] \/ redirects'[p] # redirects[p])

\* C34: following a redirect changes only the target URL and the redirect
\* counter: the current wait, the retry count and the session are
\* unchanged, no cool-down is recorded and no time passes; the next attempt
\* goes to the new URL, and on every attempt the response handled is the
\* direct answer of the URL posted to (the transport follows no redirect),
\* whatever the caller's allow_redirects.
C34_RedirectFrame ==
    /\ [][\A p \in Procs :
            FollowsRedirect(p) =>
               /\ r[p].status_code \in {301, 302}
               /\ url'[p] = ResolvedTarget(r[p])
               /\ url'[p] # url[p]
               /\ redirects'[p] = redirects[p] + 1
               /\ wait'[p] = wait[p]
               /\ retry'[p] = retry[p]
               /\ session'[p] = session[p]
               /\ retry_policy' = retry_policy
               /\ backoffs' = backoffs
               /\ retired' = retired
               /\ now' = now
               /\ allow_redirects' = allow_redirects]_vars
    /\ [][\A p \in Procs, o \in TransportOutcomes, d \in Durations :
            (Post(p, o, d) /\ o.exc = "") =>
               /\ r'[p].url = url[p]
               /\ r'[p].status_code = o.answer[1]
               /\ r'[p].history = <<>>
               /\ url'[p] = url[p]]_vars

\* C34 witness: after a backoff retry a call has followed a redirect and is
\* at the top of the loop with the new URL, wait 20 and retry count 1.
C34_Witness ==
    \E p \in Procs :
        /\ pc[p] = "top"
        /\ redirects[p] = 1
        /\ url[p] = LocOther
        /\ wait[p] = 20 /\ retry[p] = 1
        /\ backoffs[p] = <<10>>
        /\ allow_redirects

\* What the response of the call of _raise_response_errors carries.
HasCasHeader ==
    /\ "X-CasErrorCode" \in DOMAIN args.response.headers
    /\ args.response.headers["X-CasErrorCode"] # ""

HasVersionMarker ==
    /\ args.response.status_code = 500
    /\ \E i \in DOMAIN args.response.content :
          args.response.content[i] \in {InvalidVersionMarker, InvalidSchemaMarker}

HasLockedOutMarker ==
    \E i \in DOMAIN args.response.content : args.response.content[i] = LockedOutMarker

IsLoginFailure == args.response.status_code = 401 /\ args.fail_fast

FromConnectionError == "TimeoutException" \in DOMAIN args.response.headers

\* C35: a terminal non-success response is classified in a fixed order of
\* precedence: CAS header, then status 500 with an invalid-server-version
\* marker, then the account-locked-out marker, then 401 under fail_fast,
\* then a placeholder built from a connection error (that error is raised
\* again), then TransportError; hence a 401 under fail_fast raises
\* UnauthorizedError unless a CAS header or the locked-out marker is present.
C35_ErrorPrecedence ==
    result # <<>> =>
       /\ HasCasHeader => result.exc = "CASError"
       /\ (~HasCasHeader /\ HasVersionMarker) =>
             result.exc = "ErrorInvalidSchemaVersionForMailboxVersion"
       /\ (~HasCasHeader /\ ~HasVersionMarker /\ HasLockedOutMarker) =>
             result.exc = "TransportError"
       /\ (~HasCasHeader /\ ~HasVersionMarker /\ ~HasLockedOutMarker /\ IsLoginFailure) =>
             result.exc = "UnauthorizedError"
       /\ (/\ ~HasCasHeader /\ ~HasVersionMarker /\ ~HasLockedOutMarker
           /\ ~IsLoginFailure /\ FromConnectionError) =>
             result.exc = args.response.headers["TimeoutException"]
       /\ (/\ ~HasCasHeader /\ ~HasVersionMarker /\ ~HasLockedOutMarker
           /\ ~IsLoginFailure /\ ~FromConnectionError) =>
             result.exc = "TransportError"
       /\ (IsLoginFailure /\ ~HasCasHeader /\ ~HasLockedOutMarker) =>
             result.exc = "UnauthorizedError"

\* C35 witness: a 401 with the locked-out marker, under fail_fast, was
\* classified as TransportError.
C35_Witness ==
    /\ result # <<>>
    /\ IsLoginFailure /\ HasLockedOutMarker /\ ~FromConnectionError /\ ~HasCasHeader
    /\ result.exc = "TransportError"

\* a is the beginning of b.
IsPrefix(a, b) == Len(a) <= Len(b) /\ a = SubSeq(b, 1, Len(a))

\* C36: for every sequence of read(size) calls, with size any integer or
\* None, the concatenation of the byte strings returned is a prefix of the
\* concatenation of the generator's chunks, and equals it once a read (of a
\* size other than 0) has returned b''; read(n) with n > 0 returns at most n
\* bytes; tell() equals the number of bytes returned so far.
C36_ReadsArePrefix ==
    /\ IsPrefix(result.returned, Flatten(args.chunks))
    /\ result.got_empty => result.returned = Flatten(args.chunks)
    /\ (result.last_size # None /\ result.last_size[1] > 0) =>
          Len(result.last) <= result.last_size[1]
    /\ result.tell = Len(result.returned)

\* C37: for any iterable and any chunksize >= 1, the chunks of chunkify
\* concatenated in order are the input's elements in order; every chunk
\* except the last has exactly chunksize elements, the last has between 1
\* and chunksize, an empty input produces no chunk; the same for inputs
\* that are sliced and inputs that are accumulated.
C37_ChunksPartitionInput ==
    result # <<>> =>
       LET chunks == result.chunks
           n == Len(chunks)
       IN  /\ Flatten(chunks) = args.iterable.items
           /\ \A i \in 1..(n - 1) : Len(chunks[i]) = args.chunksize
           /\ n > 0 => Len(chunks[n]) \in 1..args.chunksize
           /\ args.iterable.items = <<>> => n = 0

\* C37 witness: a generator of five elements was cut into chunks of two:
\* two full chunks and a last one of a single element.
C37_Witness ==
    /\ result # <<>>
    /\ args.iterable.type = "generator"
    /\ args.chunksize = 2
    /\ result.chunks = <<<<1, 2>>, <<3, 4>>, <<5>>>>

\* An argument of the constructor shortcut is given (number: a valid one).
Given(x) == x # None

=============================================================================
